---------------------------- MODULE Spec2Model ----------------------------
(***************************************************************************)
(* Verification model of the document element extraction and assembly      *)
(* pipeline of xDAN-smartDoc-dolphin.                                      *)
(*                                                                         *)
(* The module holds one state machine per component, each with its own     *)
(* variables, initial predicate and specification:                         *)
(*   SpecCoord  utils/image_utils.py   process_coordinates                 *)
(*   SpecMerge  the two block mergers (engine and parsing_utils)           *)
(*   SpecPipe   _process_elements / _process_element_batch, three engines  *)
(*   SpecSem    admission of page invocations to inference calls           *)
(*   SpecLoad   load_model with a lock and a loaded flag                   *)
(*   SpecParse  utils/parsing_utils.py parse_layout_string                 *)
(*   SpecAsm    generate_markdown, generate_json_output, _generate_html    *)
(*   SpecEng    engines.AsyncDolphinEngine: chat, load_model, unload_model *)
(*   SpecQueue  queue/simple_queue.py SimpleQueue and QueueWorker          *)
(* SpecSemFair and SpecEngFair add the fairness of the scheduling for the  *)
(* liveness properties.                                                    *)
(* A specification leaves the variables of the other components at their   *)
(* idle values.                                                            *)
(***************************************************************************)
EXTENDS Integers, Sequences, FiniteSets, TLC

VARIABLES
    \* ---- coordinate mapper
    dims,          \* ImageDimensions of the page
    coords,        \* normalized box, as numerators over CoordDen
    boxes,         \* result of process_coordinates, or NoBoxes
    cpc,           \* "ready" | "mapped"
    \* ---- block mergers
    merger,        \* "engine" (_merge_adjacent_text_blocks) | "utils" (merge_text_blocks)
    mList,         \* the element list: the input, then each pass's output
    mPrev,         \* the list the last pass received
    passes,        \* number of merge passes applied so far
    uuidNext,      \* next fresh element_id (uuid4 of a new DocumentElement)
    mDistance,     \* the distance threshold of the calls (threshold / max_distance)
    \* ---- page pipeline: _process_elements and _process_element_batch
    variant,       \* "xdan" | "engines" | "main": the engine class
    request,       \* max_batch_size, merge_text_blocks, include_confidence, include_images
    page,          \* ImageDimensions of the page image
    layout_data,   \* parsed layout: the labels of the regions, in layout order
    ppc,           \* "layout" | "classify" | "text" | "table" | "combine" | "done" | "failed"
    region,        \* number of the layout entry the classification loop is at
    reading_order, \* the counter of the classification loop
    element_groups,\* the buckets: text, table (pending elements), figure (elements)
    batch_i,       \* start index i of the current chunk in its bucket
    inflight,      \* the recognition call awaited, or NoCall
    results,       \* results list of the running _process_element_batch
    all_elements,  \* figure elements plus the results of the finished buckets
    final,         \* the list _process_elements returned
    classified,    \* history: what the loop did with each region
    calls,         \* history: the recognition calls issued and how each ended
    \* ---- admission of concurrent page invocations to inference
    semVariant,    \* "xdan" | "engines" | "main": the engine class
    permits,       \* value of the asyncio.Semaphore of the engine
    tpc,           \* per page invocation: "idle" | "ready" | "inferring" | "done" | "failed" | "raised"
    tcalls,        \* per page invocation: inference calls finished
    tmode,         \* per page invocation: request.processing_mode
    \* ---- load_model of the engines with a load lock
    loader,        \* "xdan" | "main": the engine class
    model_loaded,  \* self._model_loaded
    load_lock,     \* holder of the asyncio.Lock, 0 when free
    lpc,           \* per chat call: "idle" | "want_lock" | "loading" | "infer" | "done" | "raised"
    load_log,      \* history: "start", "success", "failure" of _load_model_sync runs
    \* ---- layout parser
    fragments,     \* the pieces the layout text is made of
    layout_text,   \* bbox_str
    parsed,        \* parsed_results
    parse_pc,      \* "ready" | "parsed"
    \* ---- output assembly
    aElements,     \* the element list the caller holds and passes to the generators
    aGiven,        \* history: the list as it was before the first run
    aFormat,       \* request.output_format
    aTime,         \* the processing_time argument of generate_json_output
    aResult,       \* markdown_content, html_content, json_data of the last run
    aPrev,         \* those of the run before
    aRuns,         \* number of runs so far
    \* ---- engines.AsyncDolphinEngine: load_model, chat, unload_model
    eng_model_loaded, \* self._model_loaded
    eng_warm_up_done, \* self._warm_up_done
    eng_model,     \* self.processor and self.model: the load that set them, or NoModel
    eng_tokenizer, \* self.tokenizer is set
    eng_slots,     \* free slots of self._processing_lock
    epc,           \* per chat call: where its innermost chat frame stands
    edepth,        \* per chat call: the warm-up chats nested inside it
    upc,           \* unload_model: "idle" | "unloading"
    eng_unloads,    \* unload_model calls made so far
    \* ---- queue/simple_queue.py: SimpleQueue and QueueWorker
    task_queue,    \* the Redis list smartdoc:tasks, head first
    q_status,      \* per task: the status stored under smartdoc:status:<task_id>
    apc,           \* per task: its add_task call, "idle" | "pushed" | "added"
    wpc,           \* per worker: where its loop and _process_task stand
    wtask,         \* per worker: the task it took, 0 when none
    wprocessor,    \* per worker: a processor is set
    q_outcome,     \* history, per task: how the processor call went
    q_log,         \* history, per task: the statuses the workers wrote
    q_write_failed \* history, per task: an update_task_status call raised

coordVars == <<dims, coords, boxes, cpc>>
mergeVars == <<merger, mList, mPrev, passes, uuidNext, mDistance>>
pipeVars == <<variant, request, page, layout_data, ppc, region, reading_order,
              element_groups, batch_i, inflight, results, all_elements, final,
              classified, calls>>

semVars == <<semVariant, permits, tpc, tcalls, tmode>>
loadVars == <<loader, model_loaded, load_lock, lpc, load_log>>
parseVars == <<fragments, layout_text, parsed, parse_pc>>
asmVars == <<aElements, aGiven, aFormat, aTime, aResult, aPrev, aRuns>>

engVars == <<eng_model_loaded, eng_warm_up_done, eng_model, eng_tokenizer,
             eng_slots, epc, edepth, upc, eng_unloads>>

queueVars == <<task_queue, q_status, apc, wpc, wtask, wprocessor, q_outcome, q_log,
               q_write_failed>>

vars == <<coordVars, mergeVars, pipeVars, semVars, loadVars, parseVars, asmVars,
          engVars, queueVars>>

\* What an action of one component leaves alone: the other components.
notCoord == <<mergeVars, pipeVars, semVars, loadVars, parseVars, asmVars,
    engVars, queueVars>>
notMerge == <<coordVars, pipeVars, semVars, loadVars, parseVars, asmVars,
    engVars, queueVars>>
notPipe == <<coordVars, mergeVars, semVars, loadVars, parseVars, asmVars,
    engVars, queueVars>>
notSem == <<coordVars, mergeVars, pipeVars, loadVars, parseVars, asmVars,
    engVars, queueVars>>
notLoad == <<coordVars, mergeVars, pipeVars, semVars, parseVars, asmVars,
    engVars, queueVars>>
notParse == <<coordVars, mergeVars, pipeVars, semVars, loadVars, asmVars,
    engVars, queueVars>>
notAsm == <<coordVars, mergeVars, pipeVars, semVars, loadVars, parseVars,
    engVars, queueVars>>
notEng == <<coordVars, mergeVars, pipeVars, semVars, loadVars, parseVars, asmVars, queueVars>>
notQueue == <<coordVars, mergeVars, pipeVars, semVars, loadVars, parseVars, asmVars, engVars>>

Min(a, b) == IF a <= b THEN a ELSE b
Max(a, b) == IF a >= b THEN a ELSE b

(***************************************************************************)
(* Coordinate mapper: utils/image_utils.py                                 *)
(***************************************************************************)

\* Largest original width and height of a page, in pixels.
MaxDim == 4
\* Normalized coordinates are the fractions k / CoordDen, k in 0..CoordDen.
\* With CoordDen = 4 they and their products with a pixel size are exact in
\* binary floating point, so int(c * padded_w) is the integer quotient.
CoordDen == 4

NoBoxes == [padded |-> <<>>, original |-> <<>>]

\* prepare_image: the padded canvas is the square of side max(h, w).
prepare_image(w, h) ==
    LET target_size == Max(h, w)
    IN  [original_w |-> w, original_h |-> h,
         padded_w |-> target_size, padded_h |-> target_size]

\* map_to_original_coordinates: subtract the padding offset, clamp, and
\* repair a degenerate box with min(lower + 1, original size).
map_to_original_coordinates(x1, y1, x2, y2, d) ==
    LET pad_h == (d.padded_h - d.original_h) \div 2
        pad_w == (d.padded_w - d.original_w) \div 2
        orig_x1 == Max(0, x1 - pad_w)
        orig_y1 == Max(0, y1 - pad_h)
        orig_x2a == Min(d.original_w, x2 - pad_w)
        orig_y2a == Min(d.original_h, y2 - pad_h)
        orig_x2 == IF orig_x2a <= orig_x1
                   THEN Min(orig_x1 + 1, d.original_w) ELSE orig_x2a
        orig_y2 == IF orig_y2a <= orig_y1
                   THEN Min(orig_y1 + 1, d.original_h) ELSE orig_y2a
    IN  <<orig_x1, orig_y1, orig_x2, orig_y2>>

\* int(c * padded) for the fraction c = k / CoordDen.
ToPixel(k, padded) == (k * padded) \div CoordDen

\* process_coordinates: normalized -> padded pixels (clamped so that the box
\* is never degenerate) -> original pixels.
process_coordinates(c, d) ==
    LET x1a == ToPixel(c[1], d.padded_w)
        y1a == ToPixel(c[2], d.padded_h)
        x2a == ToPixel(c[3], d.padded_w)
        y2a == ToPixel(c[4], d.padded_h)
        x1 == Max(0, Min(x1a, d.padded_w - 1))
        y1 == Max(0, Min(y1a, d.padded_h - 1))
        x2 == Max(x1 + 1, Min(x2a, d.padded_w))
        y2 == Max(y1 + 1, Min(y2a, d.padded_h))
    IN  [padded |-> <<x1, y1, x2, y2>>,
         original |-> map_to_original_coordinates(x1, y1, x2, y2, d)]

CoordStart ==
    /\ \E w \in 1..MaxDim, h \in 1..MaxDim : dims = prepare_image(w, h)
    /\ coords \in [1..4 -> 0..CoordDen]
    /\ boxes = NoBoxes
    /\ cpc = "ready"

CoordIdle ==
    /\ dims = prepare_image(1, 1)
    /\ coords = [i \in 1..4 |-> 0]
    /\ boxes = NoBoxes
    /\ cpc = "idle"

\* One call of process_coordinates on the region.
ProcessCoordinates ==
    /\ cpc = "ready"
    /\ boxes' = process_coordinates(coords, dims)
    /\ cpc' = "mapped"
    /\ UNCHANGED <<dims, coords>>
    /\ UNCHANGED notCoord

CoordNext == ProcessCoordinates

(***************************************************************************)
(* Document elements                                                       *)
(***************************************************************************)

\* A confidence is the fraction n / d in lowest terms; NoConfidence stands for
\* an element dict without a "confidence" key.
NoConfidence == [n |-> 0, d |-> 0]

RECURSIVE Gcd(_, _)
Gcd(a, b) == IF b = 0 THEN a ELSE Gcd(b, a % b)

Frac(n, d) == IF n = 0 THEN [n |-> 0, d |-> 1]
              ELSE [n |-> n \div Gcd(n, d), d |-> d \div Gcd(n, d)]

FracAdd(p, q) == Frac(p.n * q.d + q.n * p.d, p.d * q.d)

\* No entry of the metadata map: no merged_from count, no error flag.
NoMetadata == [merged_from |-> 0, error |-> FALSE]

\* sorted(elements, key=reading_order) and list.sort(key=reading_order):
\* a stable sort, here by insertion.
RECURSIVE InsertByOrder(_, _)
InsertByOrder(e, s) ==
    IF s = <<>> THEN <<e>>
    ELSE IF Head(s).reading_order <= e.reading_order
         THEN <<Head(s)>> \o InsertByOrder(e, Tail(s))
         ELSE <<e>> \o s

RECURSIVE SortByReadingOrder(_)
SortByReadingOrder(s) ==
    IF s = <<>> THEN <<>>
    ELSE InsertByOrder(s[Len(s)], SortByReadingOrder(SubSeq(s, 1, Len(s) - 1)))

\* str.strip(): the text without its leading and trailing whitespace (the
\* texts of the model hold no whitespace but " ").
RECURSIVE LStrip(_)
LStrip(t) == IF Len(t) > 0 /\ SubSeq(t, 1, 1) = " "
             THEN LStrip(SubSeq(t, 2, Len(t))) ELSE t

RECURSIVE RStrip(_)
RStrip(t) == IF Len(t) > 0 /\ SubSeq(t, Len(t), Len(t)) = " "
             THEN RStrip(SubSeq(t, 1, Len(t) - 1)) ELSE t

Strip(t) == RStrip(LStrip(t))

\* " ".join(texts)
RECURSIVE JoinWithSpace(_)
JoinWithSpace(texts) ==
    IF texts = <<>> THEN ""
    ELSE IF Len(texts) = 1 THEN texts[1]
    ELSE texts[1] \o " " \o JoinWithSpace(Tail(texts))

\* [e.text for e in group if e.text.strip()]
RECURSIVE NonBlankTexts(_)
NonBlankTexts(group) ==
    IF group = <<>> THEN <<>>
    ELSE (IF Strip(Head(group).text) # "" THEN <<Head(group).text>> ELSE <<>>)
         \o NonBlankTexts(Tail(group))

SetMin(S) == CHOOSE m \in S : \A x \in S : m <= x
SetMax(S) == CHOOSE m \in S : \A x \in S : m >= x

\* min of mins, max of maxes over the boxes of a group.
UnionBox(group) ==
    LET Coord(k) == {group[i].bbox[k] : i \in 1..Len(group)}
    IN  <<SetMin(Coord(1)), SetMin(Coord(2)), SetMax(Coord(3)), SetMax(Coord(4))>>

(***************************************************************************)
(* Block merger of the engine: api/enhanced_main.py                        *)
(***************************************************************************)

\* Default threshold of _are_adjacent.
AdjacentThreshold == 20

\* An adjacency test on the signed gap bbox2[1] - bbox1[3], without abs().
are_adjacent_signed(bbox1, bbox2, threshold) ==
    bbox2[2] - bbox1[4] <= threshold

\* _are_adjacent: the distance from the bottom of bbox1 to the top of bbox2.
are_adjacent(bbox1, bbox2, threshold) ==
    LET d == bbox2[2] - bbox1[4]
        vertical_distance == IF d < 0 THEN -d ELSE d
    IN  vertical_distance <= threshold

\* A merged element built on the last element of the group: group[-1].copy().
merge_text_group_on_last(group) ==
    [group[Len(group)] EXCEPT
        !.text = JoinWithSpace(NonBlankTexts(group)),
        !.bbox = UnionBox(group),
        !.metadata = [merged_from |-> Len(group), error |-> FALSE]]

\* _merge_text_group: a copy of the first element of the group with the
\* joined text, the union box and the count of folded elements.
merge_text_group(group) ==
    [group[1] EXCEPT
        !.text = JoinWithSpace(NonBlankTexts(group)),
        !.bbox = UnionBox(group),
        !.metadata = [merged_from |-> Len(group), error |-> FALSE]]

\* A group of one element is emitted as it is, a larger one folded.
FlushGroup(group) ==
    IF group = <<>> THEN <<>>
    ELSE IF Len(group) > 1 THEN <<merge_text_group(group)>>
    ELSE group

RECURSIVE MergeLoop(_, _, _, _)
MergeLoop(rest, merged, current_group, threshold) ==
    IF rest = <<>> THEN merged \o FlushGroup(current_group)
    ELSE LET element == Head(rest)
         IN  IF element.type = "text"
             THEN IF current_group = <<>>
                  THEN MergeLoop(Tail(rest), merged, <<element>>, threshold)
                  ELSE IF are_adjacent(current_group[Len(current_group)].bbox,
                                       element.bbox, threshold)
                       THEN MergeLoop(Tail(rest), merged,
                                      Append(current_group, element), threshold)
                       ELSE MergeLoop(Tail(rest),
                                      merged \o FlushGroup(current_group),
                                      <<element>>, threshold)
             ELSE MergeLoop(Tail(rest),
                            (merged \o FlushGroup(current_group)) \o <<element>>,
                            <<>>, threshold)

\* _merge_adjacent_text_blocks
merge_adjacent_text_blocks(elements) ==
    IF elements = <<>> THEN elements
    ELSE MergeLoop(SortByReadingOrder(elements), <<>>, <<>>, AdjacentThreshold)

(***************************************************************************)
(* Block merger of utils/parsing_utils.py                                  *)
(***************************************************************************)

\* Default max_distance of merge_text_blocks.
MaxDistanceDefault == 50

\* [e.confidence for e in elements if e.confidence > 0]
RECURSIVE PositiveConfidences(_)
PositiveConfidences(group) ==
    IF group = <<>> THEN <<>>
    ELSE (IF Head(group).confidence.n > 0 THEN <<Head(group).confidence>> ELSE <<>>)
         \o PositiveConfidences(Tail(group))

RECURSIVE FracSum(_)
FracSum(fs) == IF fs = <<>> THEN Frac(0, 1) ELSE FracAdd(Head(fs), FracSum(Tail(fs)))

\* sum(confidences) / len(confidences) if confidences else 0.0
AverageConfidence(confidences) ==
    IF confidences = <<>> THEN Frac(0, 1)
    ELSE LET t == FracSum(confidences)
         IN  Frac(t.n, t.d * Len(confidences))

\* _merge_element_group: a new DocumentElement (with a fresh element_id and an
\* empty metadata map) for a group of two or more, the element itself for a
\* group of one.
merge_element_group(elements, fresh_id) ==
    IF Len(elements) = 1 THEN elements[1]
    ELSE LET orders == {elements[i].reading_order : i \in 1..Len(elements)}
         IN  [element_id |-> fresh_id,
              type |-> elements[1].type,
              bbox |-> UnionBox(elements),
              text |-> JoinWithSpace(NonBlankTexts(elements)),
              confidence |-> AverageConfidence(PositiveConfidences(elements)),
              reading_order |-> SetMin(orders),
              metadata |-> NoMetadata,
              image_data |-> 0]

\* The text elements in reading order, grouped while the gap to the last
\* element of the group is within max_distance; fresh_id numbers the new
\* elements.
RECURSIVE TextGroupLoop(_, _, _, _, _)
TextGroupLoop(rest, merged, current_group, max_distance, fresh_id) ==
    LET closed == IF Len(current_group) > 1
                  THEN <<merge_element_group(current_group, fresh_id)>>
                  ELSE current_group
        next_id == IF Len(current_group) > 1 THEN fresh_id + 1 ELSE fresh_id
    IN  IF rest = <<>> THEN merged \o closed
        ELSE LET current == Head(rest)
                 previous == current_group[Len(current_group)]
                 d == current.bbox[2] - previous.bbox[4]
                 vertical_distance == IF d < 0 THEN -d ELSE d
             IN  IF vertical_distance <= max_distance
                 THEN TextGroupLoop(Tail(rest), merged,
                                    Append(current_group, current),
                                    max_distance, fresh_id)
                 ELSE TextGroupLoop(Tail(rest), merged \o closed, <<current>>,
                                    max_distance, next_id)

IsText(e) == e.type = "text"
IsNotText(e) == e.type # "text"

\* merge_text_blocks
merge_text_blocks(elements, max_distance, fresh_id) ==
    IF elements = <<>> THEN elements
    ELSE LET text_elements == SelectSeq(elements, IsText)
             other_elements == SelectSeq(elements, IsNotText)
         IN  IF Len(text_elements) <= 1 THEN elements
             ELSE LET sorted_text == SortByReadingOrder(text_elements)
                      merged == TextGroupLoop(Tail(sorted_text), <<>>,
                                              <<Head(sorted_text)>>,
                                              max_distance, fresh_id)
                  IN  SortByReadingOrder(merged \o other_elements)

(***************************************************************************)
(* The mergers as a state machine: a list, and passes of one merger on it. *)
(***************************************************************************)

\* Longest element list given to a merger.
MaxElems == 3
\* Text boxes start at the multiples 0..MaxTop of the merger's threshold.
MaxTop == 3
\* Merge passes applied to one list.
MaxPasses == 2

\* The default threshold of a merger.
Threshold(m) == IF m = "engine" THEN AdjacentThreshold ELSE MaxDistanceDefault

\* The thresholds of the calls: _are_adjacent is always called with its
\* default; merge_text_blocks takes max_distance from its caller.
Thresholds(m) ==
    IF m = "engine" THEN {AdjacentThreshold} ELSE {MaxDistanceDefault, 20, 10}

\* The texts of the input elements, one word per reading order.
Word(r) == <<"alpha", "beta", "gamma", "delta", "epsilon", "zeta">>[(r % 6) + 1]

\* The confidences of the input elements: 0.0, 0.4, 0.8 by reading order.
ConfidenceOf(r) == Frac(2 * (r % 3), 5)

\* What is chosen freely for an element: its type and, for a text element,
\* where its box starts and how tall it is (half or twice the threshold).
Shapes == [type : {"text"}, top : 0..MaxTop, tall : BOOLEAN]
          \cup [type : {"table", "figure"}, top : {0}, tall : {FALSE}]

ElementOf(shape, r, th) ==
    LET y1 == shape.top * th
        h == IF shape.tall THEN 2 * th ELSE th \div 2
    IN  [element_id |-> r + 1,
         type |-> shape.type,
         bbox |-> <<10 * (r % 2), y1, 100 - 10 * (r % 3), y1 + h>>,
         text |-> Word(r),
         confidence |-> ConfidenceOf(r),
         reading_order |-> r,
         metadata |-> NoMetadata,
         image_data |-> 0]

\* A list of n elements with the distinct reading orders 0..n-1, rotated by
\* rot places from ascending order.
InputList(sh, rot, n, th) ==
    [i \in 1..n |-> ElementOf(sh[((i - 1 + rot) % n) + 1], (i - 1 + rot) % n, th)]

\* Two text elements one under the other, 5 apart: boxes [0,0,100,20] and
\* [0,25,100,45].
ScenarioPair ==
    <<[element_id |-> 1, type |-> "text", bbox |-> <<0, 0, 100, 20>>,
       text |-> Word(0), confidence |-> ConfidenceOf(0), reading_order |-> 0,
       metadata |-> NoMetadata, image_data |-> 0],
      [element_id |-> 2, type |-> "text", bbox |-> <<0, 25, 100, 45>>,
       text |-> Word(1), confidence |-> ConfidenceOf(1), reading_order |-> 1,
       metadata |-> NoMetadata, image_data |-> 0]>>

MergeStart ==
    /\ merger \in {"engine", "utils"}
    /\ mDistance \in Thresholds(merger)
    /\ \/ /\ mDistance = Threshold(merger)
          /\ \E n \in 0..MaxElems : \E sh \in [1..n -> Shapes], rot \in 0..Max(n - 1, 0) :
                mList = InputList(sh, rot, n, mDistance)
       \/ mList = ScenarioPair
    /\ mPrev = <<>>
    /\ passes = 0
    /\ uuidNext = MaxElems + 1

MergeIdle ==
    /\ merger = "none"
    /\ mList = <<>>
    /\ mPrev = <<>>
    /\ passes = 0
    /\ uuidNext = 0
    /\ mDistance = 0

\* The ids used so far, so that the next new element gets a fresh one.
NextFreshId(list, fresh_id) ==
    SetMax({fresh_id} \cup {list[i].element_id + 1 : i \in 1..Len(list)})

\* One call of xDANVisionEngine._merge_adjacent_text_blocks on the list.
MergeAdjacentTextBlocks ==
    /\ merger = "engine"
    /\ passes < MaxPasses
    /\ mPrev' = mList
    /\ mList' = merge_adjacent_text_blocks(mList)
    /\ passes' = passes + 1
    /\ UNCHANGED <<merger, uuidNext, mDistance>>
    /\ UNCHANGED notMerge

\* One call of parsing_utils.merge_text_blocks on the list.
MergeTextBlocks ==
    /\ merger = "utils"
    /\ passes < MaxPasses
    /\ mPrev' = mList
    /\ mList' = merge_text_blocks(mList, mDistance, uuidNext)
    /\ passes' = passes + 1
    /\ uuidNext' = NextFreshId(mList', uuidNext)
    /\ UNCHANGED <<merger, mDistance>>
    /\ UNCHANGED notMerge

MergeNext == MergeAdjacentTextBlocks \/ MergeTextBlocks

(***************************************************************************)
(* Page pipeline: _process_elements and _process_element_batch of          *)
(*   "xdan"     api/enhanced_main.py    xDANVisionEngine                   *)
(*   "engines"  engines/async_dolphin.py AsyncDolphinEngine                *)
(*   "main"     api/main.py             AsyncDolphinEngine                 *)
(***************************************************************************)

\* Longest parsed layout of a page.
MaxRegions == 3
\* Largest max_batch_size of a request.
MaxBatch == 2

Variants == {"xdan", "engines", "main"}
Labels == {"text", "tab", "fig"}

TextPrompt == "Read text in the image."
TablePrompt == "Parse the table in the image."

\* ProcessingRequest for xdan (the flags are its own); the max_batch_size
\* argument of process_page for the other two engines.
Requests(v) ==
    IF v = "xdan"
    THEN [max_batch_size : 1..MaxBatch, merge_text_blocks : BOOLEAN,
          include_confidence : BOOLEAN, include_images : BOOLEAN]
    ELSE [max_batch_size : 1..MaxBatch, merge_text_blocks : {FALSE},
          include_confidence : {FALSE}, include_images : {FALSE}]

\* The page images: a 60 x 100 page, and an image of size zero.
Pages == {prepare_image(60, 100), prepare_image(0, 0)}

\* The normalized box of layout entry k: the full width, one horizontal
\* band of the page, the bands of entries 1, 2, 3, 4 being 0, 1, 3, 0.
RegionCoords(k) ==
    LET band == <<0, 1, 3, 0>>[((k - 1) % 4) + 1]
    IN  <<0, band, CoordDen, band + 1>>

\* cropped.size of padded_image[y1:y2, x1:x2]: the slice is cut to the array.
CropSize(b, d) ==
    LET rows == Max(0, Min(b[4], d.padded_h) - Min(b[2], d.padded_h))
        cols == Max(0, Min(b[3], d.padded_w) - Min(b[1], d.padded_w))
    IN  rows * cols

NoCall == [prompt |-> "", batch |-> <<>>]
NoGroups == [text |-> <<>>, table |-> <<>>, figure |-> <<>>]

\* str.lower() and the "in" test on strings.
UpperChars == "ABCDEFGHIJKLMNOPQRSTUVWXYZ"
LowerChars == "abcdefghijklmnopqrstuvwxyz"
LowerChar(c) ==
    IF \E k \in 1..26 : SubSeq(UpperChars, k, k) = c
    THEN LET k == CHOOSE k \in 1..26 : SubSeq(UpperChars, k, k) = c
         IN  SubSeq(LowerChars, k, k)
    ELSE c

RECURSIVE LowerFrom(_, _)
LowerFrom(t, i) == IF i > Len(t) THEN ""
                   ELSE LowerChar(SubSeq(t, i, i)) \o LowerFrom(t, i + 1)

Lower(t) == LowerFrom(t, 1)

Contains(t, sub) ==
    \E i \in 1..(Len(t) - Len(sub) + 1) : SubSeq(t, i, i + Len(sub) - 1) = sub

\* The figure element the classification loop appends for a "fig" region.
FigureElement(v, req, bbox, order, k) ==
    [element_id |-> IF v = "main" THEN 0 ELSE k,
     type |-> "figure",
     bbox |-> bbox,
     text |-> "",
     confidence |-> IF v = "xdan" THEN Frac(1, 1)
                    ELSE IF v = "engines" THEN Frac(0, 1)
                    ELSE NoConfidence,
     reading_order |-> order,
     metadata |-> NoMetadata,
     image_data |-> IF v = "xdan" /\ req.include_images THEN k ELSE 0]

\* The element_info dict of a region that needs recognition; crop is the
\* number of the region whose pixels it holds.
PendingElement(v, bbox, order, k, label) ==
    [element_id |-> IF v = "xdan" THEN k ELSE 0,
     bbox |-> bbox,
     reading_order |-> order,
     type |-> IF v = "engines" THEN ""
              ELSE IF label = "tab" THEN "table" ELSE "text",
     crop |-> k]

\* min(1.0, len(text) / 100.0)
LengthConfidence(text) == Frac(Min(100, Len(text)), 100)

\* The element built from a pending element and its recognized text.
SuccessElement(v, req, elem, text, prompt) ==
    [element_id |-> IF v = "main" THEN 0 ELSE IF v = "xdan" THEN elem.element_id
                    ELSE elem.crop,
     type |-> IF v = "engines"
              THEN (IF Contains(Lower(prompt), "table") THEN "table" ELSE "text")
              ELSE elem.type,
     bbox |-> elem.bbox,
     text |-> IF v = "engines" THEN text ELSE Strip(text),
     confidence |-> IF v = "xdan"
                    THEN (IF req.include_confidence
                          THEN LengthConfidence(text) ELSE NoConfidence)
                    ELSE IF v = "engines" THEN Frac(0, 1)
                    ELSE NoConfidence,
     reading_order |-> elem.reading_order,
     metadata |-> NoMetadata,
     image_data |-> IF v = "xdan" /\ req.include_images THEN elem.crop ELSE 0]

\* The element the except branch appends for an element of a failed chunk.
FailureElement(v, elem) ==
    [element_id |-> IF v = "main" THEN 0 ELSE IF v = "xdan" THEN elem.element_id
                    ELSE elem.crop,
     type |-> IF v = "engines" THEN "text" ELSE elem.type,
     bbox |-> elem.bbox,
     text |-> "",
     confidence |-> IF v = "main" THEN NoConfidence ELSE Frac(0, 1),
     reading_order |-> elem.reading_order,
     metadata |-> [merged_from |-> 0, error |-> (v = "xdan")],
     image_data |-> 0]

\* A slice that runs one element past the chunk: elements[i:i + size + 1].
BatchOneTooMany(elements, i, max_batch_size) ==
    SubSeq(elements, i + 1, Min(i + max_batch_size + 1, Len(elements)))

\* elements[i : i + max_batch_size]
Batch(elements, i, max_batch_size) ==
    SubSeq(elements, i + 1, Min(i + max_batch_size, Len(elements)))

\* What the model decodes for the crop of region k: its word between
\* blanks, or blanks only.
RawOutput(k, kind) ==
    IF kind = "blank" THEN " " ELSE (" " \o Word(k - 1)) \o " "

\* _chat_batch_sync / _chat_sync: each decoded sequence, stripped.
ChatTexts(batch, kind) ==
    [j \in 1..Len(batch) |-> Strip(RawOutput(batch[j].crop, kind))]

\* The except branch of _process_element_batch: an element per chunk member.
FailureElements(v, batch) ==
    [j \in 1..Len(batch) |-> FailureElement(v, batch[j])]

\* The loop over zip(batch, texts).
SuccessElements(v, req, batch, texts, prompt) ==
    [j \in 1..Min(Len(batch), Len(texts)) |->
        SuccessElement(v, req, batch[j], texts[j], prompt)]

\* The end of _process_elements without its sort: the list is returned in
\* bucket order (figures, text results, table results).
FinalElementsUnsorted(v, req, elements) ==
    IF v = "xdan" /\ req.merge_text_blocks
    THEN merge_adjacent_text_blocks(elements) ELSE elements

\* The end of _process_elements: sort by reading order and, in xdan with
\* merge_text_blocks, merge the adjacent text blocks.
FinalElements(v, req, elements) ==
    LET sorted == SortByReadingOrder(elements)
    IN  IF v = "xdan" /\ req.merge_text_blocks
        THEN merge_adjacent_text_blocks(sorted) ELSE sorted

Bucket == IF ppc = "text" THEN element_groups.text ELSE element_groups.table
Prompt == IF ppc = "text" THEN TextPrompt ELSE TablePrompt

PipeStart ==
    /\ variant \in Variants
    /\ request \in Requests(variant)
    /\ page \in Pages
    /\ layout_data \in UNION {[1..n -> Labels] : n \in 0..MaxRegions}
    /\ ppc = "layout"
    /\ region = 1
    /\ reading_order = 0
    /\ element_groups = NoGroups
    /\ batch_i = 0
    /\ inflight = NoCall
    /\ results = <<>>
    /\ all_elements = <<>>
    /\ final = <<>>
    /\ classified = <<>>
    /\ calls = <<>>

PipeIdle ==
    /\ variant = "none"
    /\ request = [max_batch_size |-> 1, merge_text_blocks |-> FALSE,
                  include_confidence |-> FALSE, include_images |-> FALSE]
    /\ page = prepare_image(0, 0)
    /\ layout_data = <<>>
    /\ ppc = "idle"
    /\ region = 1
    /\ reading_order = 0
    /\ element_groups = NoGroups
    /\ batch_i = 0
    /\ inflight = NoCall
    /\ results = <<>>
    /\ all_elements = <<>>
    /\ final = <<>>
    /\ classified = <<>>
    /\ calls = <<>>

\* Stage 1: the layout call returned and the page was padded; the parsed
\* layout is layout_data.
LayoutParsed ==
    /\ ppc = "layout"
    /\ ppc' = "classify"
    /\ UNCHANGED <<variant, request, page, layout_data, region, reading_order,
                   element_groups, batch_i, inflight, results, all_elements,
                   final, classified, calls>>
    /\ UNCHANGED notPipe

\* Stage 1 raises (the model cannot be loaded, or the layout call of an
\* engine that does not catch inference errors fails): the page call raises.
LayoutCallRaises ==
    /\ ppc = "layout"
    /\ ppc' = "failed"
    /\ UNCHANGED <<variant, request, page, layout_data, region, reading_order,
                   element_groups, batch_i, inflight, results, all_elements,
                   final, classified, calls>>
    /\ UNCHANGED notPipe

\* One pass of the classification loop that reaches reading_order += 1: the
\* region is cropped and, unless the crop is empty, put into its bucket.
ClassifyRegion ==
    /\ ppc = "classify"
    /\ region <= Len(layout_data)
    /\ LET label == layout_data[region]
           coords_result == process_coordinates(RegionCoords(region), page)
           bbox == coords_result.original
           kept == CropSize(coords_result.padded, page) > 0
       IN  /\ element_groups' =
                IF ~kept THEN element_groups
                ELSE IF label = "fig"
                THEN [element_groups EXCEPT !.figure =
                        Append(@, FigureElement(variant, request, bbox,
                                                reading_order, region))]
                ELSE IF label = "tab"
                THEN [element_groups EXCEPT !.table =
                        Append(@, PendingElement(variant, bbox, reading_order,
                                                 region, label))]
                ELSE [element_groups EXCEPT !.text =
                        Append(@, PendingElement(variant, bbox, reading_order,
                                                 region, label))]
           /\ classified' = Append(classified,
                [region |-> region, label |-> label,
                 outcome |-> IF kept THEN "kept" ELSE "empty",
                 reading_order |-> reading_order])
    /\ reading_order' = reading_order + 1
    /\ region' = region + 1
    /\ UNCHANGED <<variant, request, page, layout_data, ppc, batch_i, inflight,
                   results, all_elements, final, calls>>
    /\ UNCHANGED notPipe

\* One pass of the classification loop that ends in the except branch: the
\* conversion of a non-empty crop to an image raised (cv2.cvtColor,
\* Image.fromarray, or the encoding of a figure with include_images).
ClassifyRegionRaises ==
    /\ ppc = "classify"
    /\ region <= Len(layout_data)
    /\ LET label == layout_data[region]
           coords_result == process_coordinates(RegionCoords(region), page)
       IN  /\ CropSize(coords_result.padded, page) > 0
           /\ label # "fig" \/ (variant = "xdan" /\ request.include_images)
           /\ classified' = Append(classified,
                [region |-> region, label |-> label, outcome |-> "raised",
                 reading_order |-> reading_order])
    /\ region' = region + 1
    /\ UNCHANGED <<variant, request, page, layout_data, ppc, reading_order,
                   element_groups, batch_i, inflight, results, all_elements,
                   final, calls>>
    /\ UNCHANGED notPipe

\* The loop is over: all_elements = figure_elements.copy().
EndClassify ==
    /\ ppc = "classify"
    /\ region > Len(layout_data)
    /\ all_elements' = element_groups.figure
    /\ ppc' = "text"
    /\ UNCHANGED <<variant, request, page, layout_data, region, reading_order,
                   element_groups, batch_i, inflight, results, final,
                   classified, calls>>
    /\ UNCHANGED notPipe

\* A chunk loop that starts the call for the next chunk without awaiting the
\* call before it (asyncio.create_task in place of await).
IssueWithoutAwaiting ==
    /\ ppc \in {"text", "table"}
    /\ LET i == IF inflight = NoCall THEN batch_i
                ELSE batch_i + request.max_batch_size
       IN  /\ i < Len(Bucket)
           /\ inflight' = [prompt |-> Prompt,
                           batch |-> Batch(Bucket, i, request.max_batch_size)]
           /\ batch_i' = i
    /\ UNCHANGED <<variant, request, page, layout_data, ppc, region,
                   reading_order, element_groups, results,
                   all_elements, final, classified, calls>>
    /\ UNCHANGED notPipe

\* _process_element_batch takes the next chunk and awaits chat_batch / chat.
IssueRecognitionCall ==
    /\ ppc \in {"text", "table"}
    /\ inflight = NoCall
    /\ batch_i < Len(Bucket)
    /\ inflight' = [prompt |-> Prompt,
                    batch |-> Batch(Bucket, batch_i, request.max_batch_size)]
    /\ UNCHANGED <<variant, request, page, layout_data, ppc, region,
                   reading_order, element_groups, batch_i, results,
                   all_elements, final, classified, calls>>
    /\ UNCHANGED notPipe

\* The chunk loop with an except branch that leaves the loop: after a call
\* that raised, the rest of the bucket is not dispatched.
ChunkDoneLeavesLoop(outcome, texts, elements) ==
    /\ results' = results \o elements
    /\ calls' = Append(calls, [prompt |-> inflight.prompt, batch |-> inflight.batch,
                               outcome |-> outcome, texts |-> texts])
    /\ batch_i' = IF outcome = "raised" THEN Len(Bucket)
                  ELSE batch_i + request.max_batch_size
    /\ inflight' = NoCall
    /\ UNCHANGED <<variant, request, page, layout_data, ppc, region,
                   reading_order, element_groups, all_elements, final,
                   classified>>
    /\ UNCHANGED notPipe

\* The call is over: the chunk's elements are appended and the loop moves on.
ChunkDone(outcome, texts, elements) ==
    /\ results' = results \o elements
    /\ calls' = Append(calls, [prompt |-> inflight.prompt, batch |-> inflight.batch,
                               outcome |-> outcome, texts |-> texts])
    /\ batch_i' = batch_i + request.max_batch_size
    /\ inflight' = NoCall
    /\ UNCHANGED <<variant, request, page, layout_data, ppc, region,
                   reading_order, element_groups, all_elements, final,
                   classified>>
    /\ UNCHANGED notPipe

\* The call returns one text per crop and every text is attached.
RecognitionReturns ==
    /\ inflight # NoCall
    /\ \E kind \in {"word", "blank"} :
        LET texts == ChatTexts(inflight.batch, kind)
        IN  ChunkDone("returned", texts,
                      SuccessElements(variant, request, inflight.batch, texts,
                                      inflight.prompt))

\* xdan only: inference fails inside _chat_batch_sync, which catches the
\* exception and returns an empty string per prompt.
InferenceFailsSilently ==
    /\ inflight # NoCall
    /\ variant = "xdan"
    /\ LET texts == [j \in 1..Len(inflight.batch) |-> ""]
       IN  ChunkDone("swallowed", texts,
                     SuccessElements(variant, request, inflight.batch, texts,
                                     inflight.prompt))

\* The awaited call raises (inference in engines and main, which do not
\* catch it; the executor in xdan): the except branch runs.
RecognitionRaises ==
    /\ inflight # NoCall
    /\ ChunkDone("raised", <<>>, FailureElements(variant, inflight.batch))

\* xdan with include_images: the call returned, and encoding the crop of the
\* j-th element raises after j - 1 elements were appended; the except branch
\* then appends an element for every member of the chunk.
AttachRaises ==
    /\ inflight # NoCall
    /\ variant = "xdan" /\ request.include_images
    /\ \E j \in 1..Len(inflight.batch) :
        LET texts == ChatTexts(inflight.batch, "word")
            done == SubSeq(SuccessElements(variant, request, inflight.batch,
                                           texts, inflight.prompt), 1, j - 1)
        IN  ChunkDone("attach_raised", texts,
                      done \o FailureElements(variant, inflight.batch))

\* _process_element_batch returns (or the bucket is empty and is skipped):
\* all_elements.extend(results).
FinishBucket ==
    /\ ppc \in {"text", "table"}
    /\ inflight = NoCall
    /\ batch_i >= Len(Bucket)
    /\ all_elements' = all_elements \o results
    /\ results' = <<>>
    /\ batch_i' = 0
    /\ ppc' = IF ppc = "text" THEN "table" ELSE "combine"
    /\ UNCHANGED <<variant, request, page, layout_data, region, reading_order,
                   element_groups, inflight, final, classified, calls>>
    /\ UNCHANGED notPipe

\* Sort, merge when asked to, and return.
ReturnElements ==
    /\ ppc = "combine"
    /\ final' = FinalElements(variant, request, all_elements)
    /\ ppc' = "done"
    /\ UNCHANGED <<variant, request, page, layout_data, region, reading_order,
                   element_groups, batch_i, inflight, results, all_elements,
                   classified, calls>>
    /\ UNCHANGED notPipe

PipeNext ==
    \/ LayoutParsed
    \/ LayoutCallRaises
    \/ ClassifyRegion
    \/ ClassifyRegionRaises
    \/ EndClassify
    \/ IssueRecognitionCall
    \/ RecognitionReturns
    \/ InferenceFailsSilently
    \/ RecognitionRaises
    \/ AttachRaises
    \/ FinishBucket
    \/ ReturnElements

(***************************************************************************)
(* Admission to inference: the semaphore of each engine                    *)
(*   xdan     process_document holds _processing_semaphore for the page    *)
(*   engines  chat holds _processing_lock around each inference call       *)
(*   main     chat and chat_batch go to the executor with no semaphore     *)
(***************************************************************************)

\* Number of page requests in flight at once.
NumTasks == 3
\* settings.max_concurrent_tasks, the initial value of the semaphore.
MaxConcurrentTasks == 2
\* Inference calls of a page: the layout call and one recognition call.
CallsPerPage == 2

Tasks == 1..NumTasks

\* ProcessingMode
ProcessingModes == {"sync", "async", "stream"}

SemStart ==
    /\ semVariant \in Variants
    /\ permits = MaxConcurrentTasks
    /\ tpc = [t \in Tasks |-> "idle"]
    /\ tcalls = [t \in Tasks |-> 0]
    /\ tmode \in [Tasks -> IF semVariant = "xdan" THEN ProcessingModes ELSE {"sync"}]

SemIdle ==
    /\ semVariant = "none"
    /\ permits = 0
    /\ tpc = [t \in Tasks |-> "idle"]
    /\ tcalls = [t \in Tasks |-> 0]
    /\ tmode = [t \in Tasks |-> "sync"]

\* The page invocation starts; xdan enters "async with
\* self._processing_semaphore" and waits there while no permit is free.
EnterPage(t) ==
    /\ tpc[t] = "idle"
    /\ semVariant = "xdan" => permits > 0
    /\ permits' = IF semVariant = "xdan" THEN permits - 1 ELSE permits
    /\ tpc' = [tpc EXCEPT ![t] = "ready"]
    /\ UNCHANGED <<semVariant, tcalls, tmode>>
    /\ UNCHANGED notSem

\* chat / chat_batch hands the inference to the executor; engines enters
\* "async with self._processing_lock" first.
BeginInference(t) ==
    /\ tpc[t] = "ready"
    /\ tcalls[t] < CallsPerPage
    /\ semVariant = "xdan" => tmode[t] = "sync"
    /\ semVariant = "engines" => permits > 0
    /\ permits' = IF semVariant = "engines" THEN permits - 1 ELSE permits
    /\ tpc' = [tpc EXCEPT ![t] = "inferring"]
    /\ UNCHANGED <<semVariant, tcalls, tmode>>
    /\ UNCHANGED notSem

\* The inference call returns (in xdan also when inference failed: its
\* _chat_sync catches the exception).
EndInference(t) ==
    /\ tpc[t] = "inferring"
    /\ permits' = IF semVariant = "engines" THEN permits + 1 ELSE permits
    /\ tpc' = [tpc EXCEPT ![t] = "ready"]
    /\ tcalls' = [tcalls EXCEPT ![t] = @ + 1]
    /\ UNCHANGED <<semVariant, tmode>>
    /\ UNCHANGED notSem

\* engines, main: the inference call raises. The layout call's exception
\* ends the page; a recognition call's is caught by the chunk loop.
InferenceRaises(t) ==
    /\ tpc[t] = "inferring"
    /\ semVariant # "xdan"
    /\ permits' = IF semVariant = "engines" THEN permits + 1 ELSE permits
    /\ tpc' = [tpc EXCEPT ![t] = IF tcalls[t] = 0 THEN "failed" ELSE "ready"]
    /\ tcalls' = [tcalls EXCEPT ![t] = @ + 1]
    /\ UNCHANGED <<semVariant, tmode>>
    /\ UNCHANGED notSem

\* An exit of xdan's process_document by exception that keeps the slot.
ProcessModeRaisesKeepingSlot(t) ==
    /\ tpc[t] = "ready"
    /\ semVariant = "xdan"
    /\ tmode[t] # "sync"
    /\ tpc' = [tpc EXCEPT ![t] = "failed"]
    /\ UNCHANGED <<semVariant, permits, tcalls, tmode>>
    /\ UNCHANGED notSem

\* xdan, processing_mode async or stream: process_document evaluates
\* self._process_async resp. self._process_stream, attributes the class does
\* not define; the AttributeError is logged and raised again, and the
\* "async with" is left.
ProcessModeRaises(t) ==
    /\ tpc[t] = "ready"
    /\ semVariant = "xdan"
    /\ tmode[t] # "sync"
    /\ permits' = permits + 1
    /\ tpc' = [tpc EXCEPT ![t] = "failed"]
    /\ UNCHANGED <<semVariant, tcalls, tmode>>
    /\ UNCHANGED notSem

\* xdan, processing_mode sync: _process_sync raises, at its first chat when
\* load_model fails, or later in the processing of the page; the exception
\* is logged and raised again, and the "async with" is left.
ProcessSyncRaises(t) ==
    /\ tpc[t] = "ready"
    /\ semVariant = "xdan"
    /\ tmode[t] = "sync"
    /\ permits' = permits + 1
    /\ tpc' = [tpc EXCEPT ![t] = "raised"]
    /\ UNCHANGED <<semVariant, tcalls, tmode>>
    /\ UNCHANGED notSem

\* The page returns after its last call (a page without regions makes the
\* layout call only); xdan leaves the "async with".
LeavePage(t) ==
    /\ tpc[t] = "ready"
    /\ tcalls[t] >= 1
    /\ permits' = IF semVariant = "xdan" THEN permits + 1 ELSE permits
    /\ tpc' = [tpc EXCEPT ![t] = "done"]
    /\ UNCHANGED <<semVariant, tcalls, tmode>>
    /\ UNCHANGED notSem

SemNext ==
    \E t \in Tasks :
        \/ EnterPage(t)
        \/ BeginInference(t)
        \/ EndInference(t)
        \/ InferenceRaises(t)
        \/ ProcessModeRaises(t)
        \/ ProcessSyncRaises(t)
        \/ LeavePage(t)

(***************************************************************************)
(* load_model of xDANVisionEngine and api.main.AsyncDolphinEngine          *)
(***************************************************************************)

\* Number of concurrent chat / chat_batch calls.
NumCallers == 3
\* How many runs of _load_model_sync may fail.
MaxLoadFailures == 2

Callers == 1..NumCallers
LockedEngines == {"xdan", "main"}

LoadStart ==
    /\ loader \in LockedEngines
    /\ model_loaded = FALSE
    /\ load_lock = 0
    /\ lpc = [c \in Callers |-> "idle"]
    /\ load_log = <<>>

LoadIdle ==
    /\ loader = "none"
    /\ model_loaded = FALSE
    /\ load_lock = 0
    /\ lpc = [c \in Callers |-> "idle"]
    /\ load_log = <<>>

Count(q, x) == Cardinality({i \in DOMAIN q : q[i] = x})

\* The check of the flag under the lock, with the flag's value ignored: every
\* holder of the lock loads.
SecondCheckSkipped(loaded) == FALSE

\* "if self._model_loaded: return" inside "async with self._lock".
SecondCheck(loaded) == loaded

\* chat / chat_batch reads the flag, and load_model reads it again before
\* any await: a loaded model goes straight to inference.
BeginChat(c) ==
    /\ lpc[c] = "idle"
    /\ lpc' = [lpc EXCEPT ![c] = IF model_loaded THEN "infer" ELSE "want_lock"]
    /\ UNCHANGED <<loader, model_loaded, load_lock, load_log>>
    /\ UNCHANGED notLoad

\* The lock is acquired and the flag is checked again: either load_model
\* returns, or _load_model_sync is handed to the executor.
AcquireLock(c) ==
    /\ lpc[c] = "want_lock"
    /\ load_lock = 0
    /\ IF SecondCheck(model_loaded)
       THEN /\ lpc' = [lpc EXCEPT ![c] = "infer"]
            /\ UNCHANGED <<load_lock, load_log>>
       ELSE /\ lpc' = [lpc EXCEPT ![c] = "loading"]
            /\ load_lock' = c
            /\ load_log' = Append(load_log, "start")
    /\ UNCHANGED <<loader, model_loaded>>
    /\ UNCHANGED notLoad

\* _load_model_sync returns: the flag is set and the lock released.
LoadSucceeds(c) ==
    /\ lpc[c] = "loading"
    /\ model_loaded' = TRUE
    /\ load_lock' = 0
    /\ load_log' = Append(load_log, "success")
    /\ lpc' = [lpc EXCEPT ![c] = "infer"]
    /\ UNCHANGED loader
    /\ UNCHANGED notLoad

\* _load_model_sync raises: the lock is released, the flag stays unset and
\* the chat call raises.
LoadFails(c) ==
    /\ lpc[c] = "loading"
    /\ Count(load_log, "failure") < MaxLoadFailures
    /\ load_lock' = 0
    /\ load_log' = Append(load_log, "failure")
    /\ lpc' = [lpc EXCEPT ![c] = "raised"]
    /\ UNCHANGED <<loader, model_loaded>>
    /\ UNCHANGED notLoad

\* The inference of the chat call runs and the call returns.
Infer(c) ==
    /\ lpc[c] = "infer"
    /\ lpc' = [lpc EXCEPT ![c] = "done"]
    /\ UNCHANGED <<loader, model_loaded, load_lock, load_log>>
    /\ UNCHANGED notLoad

\* The next chat call of a client whose call raised.
CallAgain(c) ==
    /\ lpc[c] = "raised"
    /\ lpc' = [lpc EXCEPT ![c] = "idle"]
    /\ UNCHANGED <<loader, model_loaded, load_lock, load_log>>
    /\ UNCHANGED notLoad

LoadNext ==
    \E c \in Callers :
        \/ BeginChat(c)
        \/ AcquireLock(c)
        \/ LoadSucceeds(c)
        \/ LoadFails(c)
        \/ Infer(c)
        \/ CallAgain(c)

(***************************************************************************)
(* Layout parser: utils/parsing_utils.py parse_layout_string               *)
(*   \[(\d*\.?\d+),\s*(\d*\.?\d+),\s*(\d*\.?\d+),\s*(\d*\.?\d+)\]\s*(\w+)  *)
(***************************************************************************)

\* Largest number of pieces in a layout text.
MaxFragments == 3

DigitChars == "0123456789"

Char(t, i) == IF i >= 1 /\ i <= Len(t) THEN SubSeq(t, i, i) ELSE ""

IsDigit(c) == \E k \in 1..10 : SubSeq(DigitChars, k, k) = c
DigitValue(c) == (CHOOSE k \in 1..10 : SubSeq(DigitChars, k, k) = c) - 1
IsLetter(c) == \E k \in 1..26 : SubSeq(UpperChars, k, k) = c \/ SubSeq(LowerChars, k, k) = c

\* The character classes of the pattern: \d, \s (the texts of the model
\* hold no whitespace but " ") and \w.
InClass(c, class) ==
    IF class = "digit" THEN IsDigit(c)
    ELSE IF class = "space" THEN c = " "
    ELSE IsDigit(c) \/ IsLetter(c) \/ c = "_"

RECURSIVE RunEnd(_, _, _)
\* The end of the longest run of characters of a class that starts at i:
\* the index of the first character after it.
RunEnd(t, i, class) ==
    IF i <= Len(t) /\ InClass(Char(t, i), class)
    THEN RunEnd(t, i + 1, class) ELSE i

\* \d*\.?\d+ at i, before a literal that is neither a digit nor a dot: the
\* index after the number, or 0 when there is none.
MatchNumber(t, i) ==
    LET a == RunEnd(t, i, "digit")
        b == RunEnd(t, a + 1, "digit")
    IN  IF Char(t, a) = "."
        THEN (IF b > a + 1 THEN b ELSE 0)
        ELSE (IF a > i THEN a ELSE 0)

RECURSIVE DigitsValue(_, _, _)
\* The value of the digits t[i..j-1].
DigitsValue(t, i, j) ==
    IF j <= i THEN 0
    ELSE 10 * DigitsValue(t, i, j - 1) + DigitValue(Char(t, j - 1))

RECURSIVE Pow10(_)
Pow10(k) == IF k = 0 THEN 1 ELSE 10 * Pow10(k - 1)

\* float(match.group(k)) of the number t[i..j-1], as a fraction.
ParseFloat(t, i, j) ==
    LET a == RunEnd(t, i, "digit")
    IN  IF a = j THEN Frac(DigitsValue(t, i, j), 1)
        ELSE Frac(DigitsValue(t, i, a) * Pow10(j - a - 1) + DigitsValue(t, a + 1, j),
                  Pow10(j - a - 1))

NoMatch == [end |-> 0, coords |-> <<>>, label |-> ""]

\* A match of the pattern that starts at i: its end, the four floats and the
\* label, stripped and lowercased; or NoMatch.
MatchAt(t, i) ==
    LET n1 == MatchNumber(t, i + 1)
        s2 == RunEnd(t, n1 + 1, "space")
        n2 == MatchNumber(t, s2)
        s3 == RunEnd(t, n2 + 1, "space")
        n3 == MatchNumber(t, s3)
        s4 == RunEnd(t, n3 + 1, "space")
        n4 == MatchNumber(t, s4)
        s5 == RunEnd(t, n4 + 1, "space")
        w  == RunEnd(t, s5, "word")
    IN  IF /\ Char(t, i) = "["
           /\ n1 > 0 /\ Char(t, n1) = ","
           /\ n2 > 0 /\ Char(t, n2) = ","
           /\ n3 > 0 /\ Char(t, n3) = ","
           /\ n4 > 0 /\ Char(t, n4) = "]"
           /\ w > s5
        THEN [end |-> w,
              coords |-> <<ParseFloat(t, i + 1, n1), ParseFloat(t, s2, n2),
                           ParseFloat(t, s3, n3), ParseFloat(t, s4, n4)>>,
              label |-> Lower(Strip(SubSeq(t, s5, w - 1)))]
        ELSE NoMatch

\* A scan that gives up at the first position where the pattern does not
\* match.
AfterMismatchStops(t, i) == Len(t) + 1

\* re.finditer: where the pattern does not match at i, the scan goes on at
\* the next character.
AfterMismatch(t, i) == i + 1

RECURSIVE FindAll(_, _)
\* The loop over re.finditer(pattern, bbox_str): the matches from left to
\* right, none overlapping, each appended as (coords, label).
FindAll(t, i) ==
    IF i > Len(t) THEN <<>>
    ELSE LET m == MatchAt(t, i)
         IN  IF m.end > 0
             THEN <<[coords |-> m.coords, label |-> m.label]>> \o FindAll(t, m.end)
             ELSE FindAll(t, AfterMismatch(t, i))

parse_layout_string(bbox_str) == FindAll(bbox_str, 1)

\* The pieces of the layout texts: occurrences of the pattern with the entry
\* each stands for, and spans that are not occurrences.
Occurrence(text, c, label) == [text |-> text, entry |-> <<[coords |-> c, label |-> label]>>]
Span(text) == [text |-> text, entry |-> <<>>]

FragmentSet == {
    Occurrence("[0.1,0.2,0.3,0.4] text",
               <<Frac(1, 10), Frac(1, 5), Frac(3, 10), Frac(2, 5)>>, "text"),
    Occurrence("[0.5, 0.5,  1, 1]TAB",
               <<Frac(1, 2), Frac(1, 2), Frac(1, 1), Frac(1, 1)>>, "tab"),
    Occurrence("[[.25,0,01.0,.750]  Fig_2-b",
               <<Frac(1, 4), Frac(0, 1), Frac(1, 1), Frac(3, 4)>>, "fig_2"),
    Span("[0.1,0.2,0.3] text"),
    Span("[0.1,0.2,0.3,0.4]"),
    Span("[-0.1,0.2,0.3,0.4] text"),
    Span("[0.1,0.2,0.3,0.4 text"),
    Span("see figure 2") }

RECURSIVE JoinFragments(_)
\* The layout text made of the pieces, each closed by ";".
JoinFragments(q) ==
    IF q = <<>> THEN ""
    ELSE (Head(q).text \o ";") \o JoinFragments(Tail(q))

RECURSIVE Entries(_)
\* The entries of the occurrences among the pieces, in order.
Entries(q) ==
    IF q = <<>> THEN <<>> ELSE Head(q).entry \o Entries(Tail(q))

ParseStart ==
    /\ fragments \in UNION {[1..n -> FragmentSet] : n \in 0..MaxFragments}
    /\ layout_text = JoinFragments(fragments)
    /\ parsed = <<>>
    /\ parse_pc = "ready"

ParseIdle ==
    /\ fragments = <<>>
    /\ layout_text = ""
    /\ parsed = <<>>
    /\ parse_pc = "idle"

ParseLayoutString ==
    /\ parse_pc = "ready"
    /\ parsed' = parse_layout_string(layout_text)
    /\ parse_pc' = "parsed"
    /\ UNCHANGED <<fragments, layout_text>>
    /\ UNCHANGED notParse

ParseNext == ParseLayoutString

(***************************************************************************)
(* Output assembly: utils/parsing_utils.py generate_markdown and           *)
(* generate_json_output, api/enhanced_main.py _generate_html, called one   *)
(* after the other by _format_result                                       *)
(***************************************************************************)

\* Elements of a list passed to the generators.
MaxAsmElems == 3
\* Runs of the generators over one list.
MaxRuns == 2

Digit(k) == SubSeq("0123456789", k + 1, k + 1)

RECURSIVE IntStr(_)
\* str(n) for an integer n >= 0
IntStr(n) == IF n < 10 THEN Digit(n) ELSE IntStr(n \div 10) \o Digit(n % 10)

\* A fraction in hundredths, rounded to the nearest (no fraction of the model
\* lies half way).
Hundredths(c) == (200 * c.n + c.d) \div (2 * c.d)

\* f"{confidence:.2f}"
Fixed2(c) ==
    LET h == Hundredths(c)
    IN  ((IntStr(h \div 100) \o ".") \o Digit((h \div 10) % 10)) \o Digit(h % 10)

\* round(processing_time, 2)
Round2(c) == Frac(Hundredths(c), 100)

\* f"{bbox}": the repr of a list of four integers
BboxRepr(b) ==
    ((((((("[" \o IntStr(b[1])) \o ", ") \o IntStr(b[2])) \o ", ")
        \o IntStr(b[3])) \o ", ") \o IntStr(b[4])) \o "]"

RECURSIVE JoinLinesFrom(_, _)
JoinLinesFrom(parts, i) ==
    IF i > Len(parts) THEN ""
    ELSE IF i = Len(parts) THEN parts[i]
    ELSE (parts[i] \o "\n") \o JoinLinesFrom(parts, i + 1)

\* "\n".join(parts)
JoinLines(parts) == JoinLinesFrom(parts, 1)

\* str.strip() on texts that hold blanks and line ends.
PyStrip(t) ==
    LET inked == {i \in 1..Len(t) : SubSeq(t, i, i) \notin {" ", "\n"}}
    IN  IF inked = {} THEN "" ELSE SubSeq(t, SetMin(inked), SetMax(inked))

\* The code fence of generate_markdown: three backquotes, written here with
\* tildes (a TLA+ string cannot hold a backquote).
Fence == "~~~"

\* A rendering that emits the table heading for every table, a table
\* without text included.
MarkdownPartsOfHeadingAlways(element) ==
    IF element.type = "text"
    THEN IF PyStrip(element.text) # "" THEN <<PyStrip(element.text), "">> ELSE <<>>
    ELSE IF element.type = "table"
    THEN <<"### Table", "", PyStrip(element.text), "">>
    ELSE IF element.type = "figure"
    THEN <<"### Figure", "", "*[Figure content]*", "">>
    ELSE <<>>

\* The lines generate_markdown appends for one element.
MarkdownPartsOf(element) ==
    LET element_type == element.type
        element_text == element.text
    IN  IF element_type = "text"
        THEN IF PyStrip(element_text) # ""
             THEN <<PyStrip(element_text), "">> ELSE <<>>
        ELSE IF element_type = "table"
        THEN IF PyStrip(element_text) # ""
             THEN <<"### Table", "",
                    IF Contains(element_text, "|") THEN PyStrip(element_text)
                    ELSE ((Fence \o "\n") \o PyStrip(element_text)) \o ("\n" \o Fence),
                    "">>
             ELSE <<>>
        ELSE IF element_type = "figure"
        THEN <<"### Figure", "", "*[Figure content]*", "">>
        ELSE IF element_type = "formula"
        THEN IF PyStrip(element_text) # ""
             THEN <<"### Formula", "",
                    IF Len(PyStrip(element_text)) >= 2
                       /\ SubSeq(PyStrip(element_text), 1, 2) = "$$"
                    THEN PyStrip(element_text)
                    ELSE ("$$" \o PyStrip(element_text)) \o "$$",
                    "">>
             ELSE <<>>
        ELSE <<>>

RECURSIVE MarkdownParts(_, _)
MarkdownParts(sorted_elements, i) ==
    IF i > Len(sorted_elements) THEN <<>>
    ELSE MarkdownPartsOf(sorted_elements[i]) \o MarkdownParts(sorted_elements, i + 1)

\* generate_markdown: the elements sorted by reading_order, each rendered by
\* its type, the lines joined and the whole stripped.
generate_markdown(elements) ==
    PyStrip(JoinLines(MarkdownParts(SortByReadingOrder(elements), 1)))

CountType(elements, t) ==
    Cardinality({i \in DOMAIN elements : elements[i].type = t})

\* generate_json_output: counts over the list as passed, and the elements
\* sorted by reading_order.
generate_json_output(elements, processing_time) ==
    LET sorted_elements == SortByReadingOrder(elements)
    IN  [document_info |->
            [total_elements |-> Len(elements),
             processing_time |-> Round2(processing_time),
             element_types |->
                [text |-> CountType(elements, "text"),
                 table |-> CountType(elements, "table"),
                 figure |-> CountType(elements, "figure"),
                 formula |-> CountType(elements, "formula")]],
         elements |->
            [i \in 1..Len(sorted_elements) |->
                [element_id |-> sorted_elements[i].element_id,
                 type |-> sorted_elements[i].type,
                 bbox |-> sorted_elements[i].bbox,
                 text |-> sorted_elements[i].text,
                 confidence |-> sorted_elements[i].confidence,
                 reading_order |-> sorted_elements[i].reading_order,
                 metadata |-> sorted_elements[i].metadata]]]

\* The lines before the element loop of _generate_html, without the style
\* sheet and the two heading lines (constant text).
HtmlHead ==
    <<"<!DOCTYPE html>", "<html lang='zh-CN'>", "<head>",
      "    <meta charset='UTF-8'>",
      "    <title>xDAN Vision Document Analysis Result</title>",
      "</head>", "<body>", "    <div class='document-container'>">>

HtmlTail == <<"    </div>", "</body>", "</html>">>

ConfidenceClass(confidence) ==
    IF 5 * confidence.n >= 4 * confidence.d THEN "high-confidence"
    ELSE IF 2 * confidence.n >= confidence.d THEN "medium-confidence"
    ELSE "low-confidence"

\* The lines _generate_html appends for one element. The texts of the model
\* hold no "|", so a table is rendered by the <pre> branch; the pictographs
\* and the Chinese caption of the figure and formula lines are written as
\* plain words.
HtmlPartsOf(element) ==
    LET elem_type == element.type
        text == element.text
        confidence == element.confidence
    IN  <<((("        <div class=\"element " \o elem_type) \o "-element\" data-bbox=\"")
            \o BboxRepr(element.bbox)) \o "\">",
          ((("            <span class=\"confidence-indicator " \o ConfidenceClass(confidence))
            \o "\" title=\"Confidence: ") \o Fixed2(confidence)) \o "\"></span>">>
        \o (IF elem_type = "text"
            THEN <<("            <p>" \o text) \o "</p>">>
            ELSE IF elem_type = "table"
            THEN <<("            <pre class='table-content'>" \o text) \o "</pre>">>
            ELSE IF elem_type = "figure"
            THEN <<"            <div class='figure-placeholder'>",
                   "                <strong>figure</strong>">>
                 \o (IF text # "" THEN <<("                <p>" \o text) \o "</p>">>
                     ELSE <<>>)
                 \o <<"            </div>">>
            ELSE IF elem_type = "formula"
            THEN <<("            <div class='formula'><code>" \o text) \o "</code></div>">>
            ELSE <<>>)
        \o <<"        </div>">>

RECURSIVE HtmlParts(_, _)
HtmlParts(sorted_elements, i) ==
    IF i > Len(sorted_elements) THEN <<>>
    ELSE HtmlPartsOf(sorted_elements[i]) \o HtmlParts(sorted_elements, i + 1)

\* _generate_html with its loop over the list as passed, without sorted().
generate_html_unsorted(elements) ==
    JoinLines((HtmlHead \o HtmlParts(elements, 1)) \o HtmlTail)

\* _generate_html: head, one block per element in reading order, tail.
generate_html(elements) ==
    JoinLines((HtmlHead \o HtmlParts(SortByReadingOrder(elements), 1)) \o HtmlTail)

\* The caller's list after a generator returns: sorted() builds a new list
\* and the loops only read the elements, so the list is as it was passed.
\* (The in-place variant is elements.sort(key=...).)
ListAfterSortInPlace(elements) == SortByReadingOrder(elements)

ListAfterSorted(elements) == elements

OutputFormats == {"json", "markdown", "html", "structured"}

\* No output of a kind: markdown_content, html_content None, json_data None.
NoJson == [document_info |-> <<>>, elements |-> <<>>]
NoResult == [markdown_content |-> "", html_content |-> "", json_data |-> NoJson]

\* The generator calls of _format_result for an output format.
format_outputs(elements, output_format, processing_time) ==
    [markdown_content |->
        IF output_format \in {"markdown", "structured"}
        THEN generate_markdown(elements) ELSE "",
     html_content |->
        IF output_format \in {"html", "structured"}
        THEN generate_html(elements) ELSE "",
     json_data |->
        IF output_format \in {"json", "structured"}
        THEN generate_json_output(elements, processing_time) ELSE NoJson]

\* What is chosen freely for an element passed to the generators: a text
\* with a word, an element without a word, a table with a word between
\* blanks, a figure without text.
AsmKinds == {"text", "blank", "table", "figure"}

\* The elements without a word: by their place in the list a text of one
\* blank, a table with the empty text, a formula of one blank.
BlankType(i) == <<"text", "table", "formula">>[((i - 1) % 3) + 1]
BlankText(i) == <<" ", "", " ">>[((i - 1) % 3) + 1]

\* Element i of a list: the word of its place in the list, so that every
\* element with a text can be told from the others.
AsmElement(kind, i, order) ==
    [element_id |-> i,
     type |-> IF kind = "blank" THEN BlankType(i) ELSE kind,
     bbox |-> <<0, 10 * i, 100, 10 * i + 10>>,
     text |-> IF kind = "text" THEN Word(i - 1)
              ELSE IF kind = "table" THEN (" " \o Word(i - 1)) \o " "
              ELSE IF kind = "blank" THEN BlankText(i) ELSE "",
     confidence |-> ConfidenceOf(i),
     reading_order |-> order,
     metadata |-> NoMetadata,
     image_data |-> 0]

\* The reading orders of a list of n elements: 0..n-1 in any order. (With
\* each halved, elements share a reading_order.)
ReadingOrders(n) ==
    {f \in [1..n -> 0..(n - 1)] : \A i, j \in 1..n : i # j => f[i] # f[j]}

AsmStart ==
    /\ \E n \in 0..MaxAsmElems :
          \E kinds \in [1..n -> AsmKinds], orders \in ReadingOrders(n), tied \in BOOLEAN :
              aElements = [i \in 1..n |->
                              AsmElement(kinds[i], i,
                                         IF tied THEN orders[i] \div 2 ELSE orders[i])]
    /\ aGiven = aElements
    /\ aFormat \in OutputFormats
    /\ aTime = Frac(4, 3)
    /\ aResult = NoResult
    /\ aPrev = NoResult
    /\ aRuns = 0

AsmIdle ==
    /\ aElements = <<>>
    /\ aGiven = <<>>
    /\ aFormat = "none"
    /\ aTime = Frac(0, 1)
    /\ aResult = NoResult
    /\ aPrev = NoResult
    /\ aRuns = 0

\* One run of the generators over the list, with the same arguments as the
\* run before.
GenerateOutputs ==
    /\ aRuns < MaxRuns
    /\ aResult' = format_outputs(aElements, aFormat, aTime)
    /\ aElements' = ListAfterSorted(aElements)
    /\ aPrev' = aResult
    /\ aRuns' = aRuns + 1
    /\ UNCHANGED <<aGiven, aFormat, aTime>>
    /\ UNCHANGED notAsm

AsmNext == GenerateOutputs

(***************************************************************************)
(* engines/async_dolphin.py AsyncDolphinEngine: chat, load_model and its   *)
(* warm-up, unload_model. Coroutines run on the event loop; the routines   *)
(* _load_model_sync, _chat_sync and _unload_model_sync run on threads of   *)
(* the default executor, next to one another.                              *)
(***************************************************************************)

\* Number of chat calls, each made once, at any time (a process_page call
\* begins with one).
NumEngCallers == 2
\* Largest settings.max_concurrent_tasks.
MaxEngSlots == 2
\* How many unload_model calls are made.
MaxUnloads == 1

EngCallers == 1..NumEngCallers

\* self.processor = None, self.model = None.
NoModel == [owner |-> 0, failed |-> FALSE]

EngStart ==
    /\ eng_model_loaded = FALSE
    /\ eng_warm_up_done = FALSE
    /\ eng_model = NoModel
    /\ eng_tokenizer = FALSE
    /\ eng_slots \in 1..MaxEngSlots
    /\ epc = [c \in EngCallers |-> "idle"]
    /\ edepth = [c \in EngCallers |-> 0]
    /\ upc = "idle"
    /\ eng_unloads = 0

EngIdle ==
    /\ eng_model_loaded = FALSE
    /\ eng_warm_up_done = FALSE
    /\ eng_model = NoModel
    /\ eng_tokenizer = FALSE
    /\ eng_slots = 0
    /\ epc = [c \in EngCallers |-> "idle"]
    /\ edepth = [c \in EngCallers |-> 0]
    /\ upc = "idle"
    /\ eng_unloads = 0

\* The head of chat: "if not self._model_loaded: await self.load_model()",
\* and load_model reads the flag again before any await. With the flag unset
\* _load_model_sync is handed to the executor, with the flag set the call
\* goes on to "async with self._processing_lock".
ChatEntry(loaded) == IF loaded THEN "want_slot" ELSE "loading"

\* A chat frame of call c ends. The outermost frame ends the call; a frame
\* under a warm-up returns to _warm_up_model, which sets _warm_up_done after
\* a result and only logs an exception, then load_model returns and the
\* chat frame around it goes on to the semaphore.
FrameEnds(c, outcome) ==
    IF edepth[c] = 0
    THEN /\ epc' = [epc EXCEPT ![c] = outcome]
         /\ UNCHANGED <<edepth, eng_warm_up_done>>
    ELSE /\ epc' = [epc EXCEPT ![c] = "want_slot"]
         /\ edepth' = [edepth EXCEPT ![c] = edepth[c] - 1]
         /\ eng_warm_up_done' = (IF outcome = "done" THEN TRUE ELSE eng_warm_up_done)

\* A chat that takes its slot before it looks at the flag, and so holds it
\* while the model is loaded and warmed up.
EngBeginChatHoldingSlot(c) ==
    /\ epc[c] = "idle"
    /\ eng_slots > 0
    /\ eng_slots' = eng_slots - 1
    /\ epc' = [epc EXCEPT ![c] = IF eng_model_loaded THEN "infer" ELSE "loading"]
    /\ UNCHANGED <<eng_model_loaded, eng_warm_up_done, eng_model, eng_tokenizer,
                   edepth, upc, eng_unloads>>
    /\ UNCHANGED notEng

\* A chat call arrives.
EngBeginChat(c) ==
    /\ epc[c] = "idle"
    /\ epc' = [epc EXCEPT ![c] = ChatEntry(eng_model_loaded)]
    /\ UNCHANGED <<eng_model_loaded, eng_warm_up_done, eng_model, eng_tokenizer,
                   eng_slots, edepth, upc, eng_unloads>>
    /\ UNCHANGED notEng

\* _load_model_sync, first half: self.processor and self.model are assigned
\* the objects from_pretrained returned.
LoadSyncAssigns(c) ==
    /\ epc[c] = "loading"
    /\ eng_model' = [owner |-> c, failed |-> FALSE]
    /\ epc' = [epc EXCEPT ![c] = "preparing"]
    /\ UNCHANGED <<eng_model_loaded, eng_warm_up_done, eng_tokenizer, eng_slots,
                   edepth, upc, eng_unloads>>
    /\ UNCHANGED notEng

\* _load_model_sync, second half: self.model is moved to the device and set
\* to eval, self.tokenizer is taken from self.processor and the flag is set.
\* (With self.processor unset in the meantime the routine can only raise.)
LoadSyncFinishes(c) ==
    /\ epc[c] = "preparing"
    /\ eng_model # NoModel
    /\ eng_tokenizer' = TRUE
    /\ eng_model_loaded' = TRUE
    /\ epc' = [epc EXCEPT ![c] = "loaded"]
    /\ UNCHANGED <<eng_warm_up_done, eng_model, eng_slots, edepth, upc, eng_unloads>>
    /\ UNCHANGED notEng

\* _load_model_sync raises, in from_pretrained or while the model it
\* assigned is prepared; the flag is not touched, load_model logs and raises
\* again, and so does the chat frame.
LoadSyncRaises(c) ==
    /\ epc[c] \in {"loading", "preparing"}
    /\ eng_model' = IF epc[c] = "preparing" /\ eng_model.owner = c
                    THEN [eng_model EXCEPT !.failed = TRUE] ELSE eng_model
    /\ FrameEnds(c, "raised")
    /\ UNCHANGED <<eng_model_loaded, eng_tokenizer, eng_slots, upc, eng_unloads>>
    /\ UNCHANGED notEng

\* load_model goes on after the executor returned: _warm_up_model returns at
\* once when the warm-up is done, otherwise it calls chat with a dummy page.
WarmUpModel(c) ==
    /\ epc[c] = "loaded"
    /\ IF eng_warm_up_done
       THEN /\ epc' = [epc EXCEPT ![c] = "want_slot"]
            /\ UNCHANGED edepth
       ELSE /\ epc' = [epc EXCEPT ![c] = ChatEntry(eng_model_loaded)]
            /\ edepth' = [edepth EXCEPT ![c] = edepth[c] + 1]
    /\ UNCHANGED <<eng_model_loaded, eng_warm_up_done, eng_model, eng_tokenizer,
                   eng_slots, upc, eng_unloads>>
    /\ UNCHANGED notEng

\* "async with self._processing_lock": a slot is taken and _chat_sync is
\* handed to the executor.
AcquireSlot(c) ==
    /\ epc[c] = "want_slot"
    /\ eng_slots > 0
    /\ eng_slots' = eng_slots - 1
    /\ epc' = [epc EXCEPT ![c] = "infer"]
    /\ UNCHANGED <<eng_model_loaded, eng_warm_up_done, eng_model, eng_tokenizer,
                   edepth, upc, eng_unloads>>
    /\ UNCHANGED notEng

\* _chat_sync returns its text and the slot is given back.
ChatSyncReturns(c) ==
    /\ epc[c] = "infer"
    /\ eng_model # NoModel
    /\ eng_tokenizer
    /\ eng_slots' = eng_slots + 1
    /\ FrameEnds(c, "done")
    /\ UNCHANGED <<eng_model_loaded, eng_model, eng_tokenizer, upc, eng_unloads>>
    /\ UNCHANGED notEng

\* _chat_sync raises (it does when the model is unset) and the slot is given
\* back.
ChatSyncRaises(c) ==
    /\ epc[c] = "infer"
    /\ eng_slots' = eng_slots + 1
    /\ FrameEnds(c, "raised")
    /\ UNCHANGED <<eng_model_loaded, eng_model, eng_tokenizer, upc, eng_unloads>>
    /\ UNCHANGED notEng

\* unload_model: returns at once when the flag is unset, otherwise hands
\* _unload_model_sync to the executor.
UnloadModel ==
    /\ upc = "idle"
    /\ eng_unloads < MaxUnloads
    /\ IF eng_model_loaded
       THEN upc' = "unloading" /\ UNCHANGED eng_unloads
       ELSE /\ eng_unloads' = eng_unloads + 1
            /\ UNCHANGED upc
    /\ UNCHANGED <<eng_model_loaded, eng_warm_up_done, eng_model, eng_tokenizer,
                   eng_slots, epc, edepth>>
    /\ UNCHANGED notEng

\* _unload_model_sync: model, processor and tokenizer are set to None and
\* both flags are cleared.
UnloadModelSync ==
    /\ upc = "unloading"
    /\ eng_model' = NoModel
    /\ eng_tokenizer' = FALSE
    /\ eng_model_loaded' = FALSE
    /\ eng_warm_up_done' = FALSE
    /\ upc' = "idle"
    /\ eng_unloads' = eng_unloads + 1
    /\ UNCHANGED <<eng_slots, epc, edepth>>
    /\ UNCHANGED notEng

EngNext ==
    \/ \E c \in EngCallers :
          \/ EngBeginChat(c)
          \/ LoadSyncAssigns(c)
          \/ LoadSyncFinishes(c)
          \/ LoadSyncRaises(c)
          \/ WarmUpModel(c)
          \/ AcquireSlot(c)
          \/ ChatSyncReturns(c)
          \/ ChatSyncRaises(c)
    \/ UnloadModel
    \/ UnloadModelSync


(***************************************************************************)
(* queue/simple_queue.py: SimpleQueue (a Redis list of tasks and a status  *)
(* key per task) and QueueWorker. Every await on the store is a step of    *)
(* its own; the add_task calls and the workers run side by side.           *)
(***************************************************************************)

\* Number of tasks added, one add_task call each.
NumQueueTasks == 2
\* Number of QueueWorkers on the queue.
NumWorkers == 2
\* How many tasks meet an update_task_status call that raises.
MaxWriteFailures == 1

QueueTasks == 1..NumQueueTasks
Workers == 1..NumWorkers

QueueStart ==
    /\ task_queue = <<>>
    /\ q_status = [t \in QueueTasks |-> "none"]
    /\ apc = [t \in QueueTasks |-> "idle"]
    /\ wpc = [w \in Workers |-> "get_task"]
    /\ wtask = [w \in Workers |-> 0]
    /\ wprocessor \in [Workers -> BOOLEAN]
    /\ q_outcome = [t \in QueueTasks |-> "none"]
    /\ q_log = [t \in QueueTasks |-> <<>>]
    /\ q_write_failed = [t \in QueueTasks |-> FALSE]

QueueIdle ==
    /\ task_queue = <<>>
    /\ q_status = [t \in QueueTasks |-> "none"]
    /\ apc = [t \in QueueTasks |-> "idle"]
    /\ wpc = [w \in Workers |-> "stopped"]
    /\ wtask = [w \in Workers |-> 0]
    /\ wprocessor = [w \in Workers |-> FALSE]
    /\ q_outcome = [t \in QueueTasks |-> "none"]
    /\ q_log = [t \in QueueTasks |-> <<>>]
    /\ q_write_failed = [t \in QueueTasks |-> FALSE]

\* add_task, first await: lpush puts the task at the head of the list.
AddTaskPush(t) ==
    /\ apc[t] = "idle"
    /\ task_queue' = <<t>> \o task_queue
    /\ apc' = [apc EXCEPT ![t] = "pushed"]
    /\ UNCHANGED <<q_status, wpc, wtask, wprocessor, q_outcome, q_log, q_write_failed>>
    /\ UNCHANGED notQueue

\* add_task, second await: setex stores status pending for the task.
AddTaskSetStatus(t) ==
    /\ apc[t] = "pushed"
    /\ q_status' = [q_status EXCEPT ![t] = "pending"]
    /\ apc' = [apc EXCEPT ![t] = "added"]
    /\ UNCHANGED <<task_queue, wpc, wtask, wprocessor, q_outcome, q_log, q_write_failed>>
    /\ UNCHANGED notQueue

\* start / get_task: brpop takes the task at the tail of the list, and
\* _process_task begins. (With the list empty the worker sleeps and asks
\* again.)
GetTask(w) ==
    /\ wpc[w] = "get_task"
    /\ task_queue # <<>>
    /\ wtask' = [wtask EXCEPT ![w] = task_queue[Len(task_queue)]]
    /\ task_queue' = SubSeq(task_queue, 1, Len(task_queue) - 1)
    /\ wpc' = [wpc EXCEPT ![w] = "write_processing"]
    /\ UNCHANGED <<q_status, apc, wprocessor, q_outcome, q_log, q_write_failed>>
    /\ UNCHANGED notQueue

\* update_task_status: setex stores the status for the task.
Stored(t, status) == [q_status EXCEPT ![t] = status]
Logged(t, status) == [q_log EXCEPT ![t] = Append(q_log[t], status)]

\* An update_task_status call may raise while tasks with a failed call are
\* fewer than MaxWriteFailures, and again for a task that met one.
MayRaise(t) ==
    \/ q_write_failed[t]
    \/ Cardinality({u \in QueueTasks : q_write_failed[u]}) < MaxWriteFailures

\* A worker that reports every task it is done with as completed.
TerminalStatusAlwaysCompleted(outcome) == "completed"

\* The terminal status the try of _process_task writes: completed after a
\* result, failed without a processor.
TerminalStatus(outcome) == IF outcome = "returned" THEN "completed" ELSE "failed"

\* _process_task: update_task_status(task_id, "processing", 0.0), then the
\* worker looks at self.processor.
WriteProcessing(w) ==
    /\ wpc[w] = "write_processing"
    /\ q_status' = Stored(wtask[w], "processing")
    /\ q_log' = Logged(wtask[w], "processing")
    /\ wpc' = [wpc EXCEPT ![w] = IF wprocessor[w] THEN "processor" ELSE "write_terminal"]
    /\ q_outcome' = [q_outcome EXCEPT ![wtask[w]] =
                        IF wprocessor[w] THEN "called" ELSE "no_processor"]
    /\ UNCHANGED <<task_queue, apc, wtask, wprocessor, q_write_failed>>
    /\ UNCHANGED notQueue

\* await self.processor(task) returns a result, or raises and the except
\* branch is entered.
ProcessorEnds(w, outcome) ==
    /\ wpc[w] = "processor"
    /\ q_outcome' = [q_outcome EXCEPT ![wtask[w]] = outcome]
    /\ wpc' = [wpc EXCEPT ![w] = IF outcome = "returned" THEN "write_terminal"
                                 ELSE "write_failed"]
    /\ UNCHANGED <<task_queue, q_status, apc, wtask, wprocessor, q_log, q_write_failed>>
    /\ UNCHANGED notQueue

\* The last call in the try: update_task_status with completed after a
\* result, with failed in the branch without a processor; _process_task
\* returns and the worker asks for the next task.
WriteTerminal(w) ==
    /\ wpc[w] = "write_terminal"
    /\ q_status' = Stored(wtask[w], TerminalStatus(q_outcome[wtask[w]]))
    /\ q_log' = Logged(wtask[w], TerminalStatus(q_outcome[wtask[w]]))
    /\ wpc' = [wpc EXCEPT ![w] = "get_task"]
    /\ wtask' = [wtask EXCEPT ![w] = 0]
    /\ UNCHANGED <<task_queue, apc, wprocessor, q_outcome, q_write_failed>>
    /\ UNCHANGED notQueue

\* An update_task_status call inside the try raises (json.dumps or the
\* store), before its setex or, for completed, after it in the setex of the
\* result: the except branch goes on to write failed.
WriteInTryRaises(w, written) ==
    /\ wpc[w] \in {"write_processing", "write_terminal"}
    /\ MayRaise(wtask[w])
    /\ written => (wpc[w] = "write_terminal" /\ q_outcome[wtask[w]] = "returned")
    /\ q_status' = IF written THEN Stored(wtask[w], "completed") ELSE q_status
    /\ q_log' = IF written THEN Logged(wtask[w], "completed") ELSE q_log
    /\ q_write_failed' = [q_write_failed EXCEPT ![wtask[w]] = TRUE]
    /\ wpc' = [wpc EXCEPT ![w] = "write_failed"]
    /\ UNCHANGED <<task_queue, apc, wtask, wprocessor, q_outcome>>
    /\ UNCHANGED notQueue

\* The except branch: update_task_status(task_id, "failed", ...); when this
\* call raises, the exception reaches start, which logs it and sleeps.
WriteFailed(w, raises) ==
    /\ wpc[w] = "write_failed"
    /\ raises => MayRaise(wtask[w])
    /\ q_status' = IF raises THEN q_status ELSE Stored(wtask[w], "failed")
    /\ q_log' = IF raises THEN q_log ELSE Logged(wtask[w], "failed")
    /\ q_write_failed' = IF raises THEN [q_write_failed EXCEPT ![wtask[w]] = TRUE]
                         ELSE q_write_failed
    /\ wpc' = [wpc EXCEPT ![w] = "get_task"]
    /\ wtask' = [wtask EXCEPT ![w] = 0]
    /\ UNCHANGED <<task_queue, apc, wprocessor, q_outcome>>
    /\ UNCHANGED notQueue

QueueNext ==
    \/ \E t \in QueueTasks : AddTaskPush(t) \/ AddTaskSetStatus(t)
    \/ \E w \in Workers :
          \/ GetTask(w)
          \/ WriteProcessing(w)
          \/ \E outcome \in {"returned", "raised"} : ProcessorEnds(w, outcome)
          \/ WriteTerminal(w)
          \/ \E written \in BOOLEAN : WriteInTryRaises(w, written)
          \/ \E raises \in BOOLEAN : WriteFailed(w, raises)


(***************************************************************************)
(* Specifications                                                          *)
(***************************************************************************)

CoordInit == CoordStart /\ MergeIdle /\ PipeIdle /\ SemIdle /\ LoadIdle /\ ParseIdle /\ AsmIdle
    /\ EngIdle /\ QueueIdle
SpecCoord == CoordInit /\ [][CoordNext]_vars

MergeInit == MergeStart /\ CoordIdle /\ PipeIdle /\ SemIdle /\ LoadIdle /\ ParseIdle /\ AsmIdle
    /\ EngIdle /\ QueueIdle
SpecMerge == MergeInit /\ [][MergeNext]_vars

PipeInit == PipeStart /\ CoordIdle /\ MergeIdle /\ SemIdle /\ LoadIdle /\ ParseIdle /\ AsmIdle
    /\ EngIdle /\ QueueIdle
SpecPipe == PipeInit /\ [][PipeNext]_vars

SemInit == SemStart /\ CoordIdle /\ MergeIdle /\ PipeIdle /\ LoadIdle /\ ParseIdle /\ AsmIdle
    /\ EngIdle /\ QueueIdle
SpecSem == SemInit /\ [][SemNext]_vars

LoadInit == LoadStart /\ CoordIdle /\ MergeIdle /\ PipeIdle /\ SemIdle /\ ParseIdle /\ AsmIdle
    /\ EngIdle /\ QueueIdle
SpecLoad == LoadInit /\ [][LoadNext]_vars

ParseInit == ParseStart /\ CoordIdle /\ MergeIdle /\ PipeIdle /\ SemIdle /\ LoadIdle /\ AsmIdle
    /\ EngIdle /\ QueueIdle
SpecParse == ParseInit /\ [][ParseNext]_vars

AsmInit ==
    AsmStart /\ CoordIdle /\ MergeIdle /\ PipeIdle /\ SemIdle /\ LoadIdle /\ ParseIdle
    /\ EngIdle /\ QueueIdle
SpecAsm == AsmInit /\ [][AsmNext]_vars

EngInit ==
    EngStart /\ CoordIdle /\ MergeIdle /\ PipeIdle /\ SemIdle /\ LoadIdle /\ ParseIdle
    /\ AsmIdle /\ QueueIdle
SpecEng == EngInit /\ [][EngNext]_vars

\* The scheduling of the page invocations: an invocation that holds what it
\* needs goes on until it ends, and the waiters of the asyncio.Semaphore are
\* woken in turn, so a request that waits at "async with" is admitted when
\* slots keep coming free.
Admitted(t) ==
    \/ BeginInference(t) \/ EndInference(t) \/ InferenceRaises(t)
    \/ ProcessModeRaises(t) \/ ProcessSyncRaises(t) \/ LeavePage(t)
SemFairness ==
    \A t \in Tasks : WF_vars(Admitted(t)) /\ SF_vars(EnterPage(t))
\* The page invocations of xDANVisionEngine alone.
XdanInit == SemInit /\ semVariant = "xdan"
XdanNext ==
    \E t \in Tasks :
        \/ EnterPage(t)
        \/ BeginInference(t)
        \/ EndInference(t)
        \/ ProcessModeRaises(t)
        \/ ProcessSyncRaises(t)
        \/ LeavePage(t)
SpecSemFair == XdanInit /\ [][XdanNext]_vars /\ SemFairness

\* The scheduling of engines.AsyncDolphinEngine: a routine handed to the
\* executor runs to its end, a coroutine that can go on is resumed by the
\* event loop, and the waiters of the asyncio.Semaphore are woken in turn, so
\* a call that waits for a slot gets one when slots keep coming free.
EngRuns(c) ==
    \/ LoadSyncAssigns(c) \/ LoadSyncFinishes(c) \/ LoadSyncRaises(c)
    \/ WarmUpModel(c)
    \/ ChatSyncReturns(c) \/ ChatSyncRaises(c)
EngFairness ==
    \A c \in EngCallers : WF_vars(EngRuns(c)) /\ SF_vars(AcquireSlot(c))
SpecEngFair == EngInit /\ [][EngNext]_vars /\ EngFairness

QueueInit ==
    QueueStart /\ CoordIdle /\ MergeIdle /\ PipeIdle /\ SemIdle /\ LoadIdle /\ ParseIdle
    /\ AsmIdle /\ EngIdle
SpecQueue == QueueInit /\ [][QueueNext]_vars

(***************************************************************************)
(* Claims                                                                  *)
(***************************************************************************)

\* C1: block merging is idempotent: a second pass of a merger over its own
\* output returns that output unchanged.
C1_MergeIdempotent ==
    passes >= 2 => mList = mPrev

Range(q) == {q[i] : i \in DOMAIN q}

NonDecreasing(q) ==
    \A i \in 1..(Len(q) - 1) : q[i].reading_order <= q[i + 1].reading_order

\* The reading orders classification gave to the regions it kept.
AssignedOrders == {c.reading_order : c \in {k \in Range(classified) : k.outcome = "kept"}}

\* C2: the element list the pipeline returns has a non-decreasing
\* reading_order sequence, and every reading_order in it is one that
\* classification assigned to a layout region.
C2_FinalOrderNonDecreasing ==
    ppc = "done" =>
        /\ NonDecreasing(final)
        /\ \A e \in Range(final) : e.reading_order \in AssignedOrders

\* C2 case: a page has returned whose combined buckets were out of order.
C2_Witness ==
    /\ ppc = "done"
    /\ Len(final) >= 2
    /\ ~NonDecreasing(all_elements)

NonDegenerate(b) == b[3] > b[1] /\ b[4] > b[2]

\* C3: for every normalized box and every image size, process_coordinates
\* returns a padded-space box and an original-space box with x2 > x1 and
\* y2 > y1.
C3_BothBoxesNonDegenerate ==
    cpc = "mapped" =>
        NonDegenerate(boxes.padded) /\ NonDegenerate(boxes.original)

\* The dispatcher's output so far: the elements of the buckets already
\* finished, then those of the bucket being processed.
Dispatched == all_elements \o results

RaisedCalls == {c \in Range(calls) : c.outcome = "raised"}
ReturnedCalls == {c \in Range(calls) : c.outcome = "returned"}

\* C5: when the recognition call for a chunk raises, each element of the
\* chunk appears in the dispatcher's result with empty text, confidence 0.0
\* and a failure flag in its metadata, in every engine variant.
C5_FailedChunkPlaceholders ==
    \A c \in RaisedCalls : \A j \in 1..Len(c.batch) :
        \E e \in Range(Dispatched) :
            /\ e.reading_order = c.batch[j].reading_order
            /\ e.bbox = c.batch[j].bbox
            /\ e.text = ""
            /\ e.confidence = Frac(0, 1)
            /\ e.metadata.error

RECURSIVE BatchesOf(_, _)
\* The chunks handed to the recognition calls made with one prompt, in order.
BatchesOf(q, prompt) ==
    IF q = <<>> THEN <<>>
    ELSE (IF Head(q).prompt = prompt THEN Head(q).batch ELSE <<>>)
         \o BatchesOf(Tail(q), prompt)

\* Every chunk of both buckets has been dispatched once the buckets are done,
\* and the elements of each chunk whose call returned carry the texts
\* returned for them.
ChunksIndependent ==
    /\ ppc \in {"combine", "done"} =>
          /\ BatchesOf(calls, TextPrompt) = element_groups.text
          /\ BatchesOf(calls, TablePrompt) = element_groups.table
    /\ \A c \in ReturnedCalls : \A j \in 1..Len(c.batch) :
          \E e \in Range(Dispatched) :
              /\ e.reading_order = c.batch[j].reading_order
              /\ e.bbox = c.batch[j].bbox
              /\ e.text = c.texts[j]

\* C6: a recognition call that raises for one chunk leaves the other chunks
\* of the page alone: every chunk of both buckets is still dispatched, the
\* elements of each chunk whose call returned carry the texts returned for
\* them, and the page call raises only when stage 1 did, never after a
\* chunk was dispatched.
C6_ChunkFailureIsolated ==
    /\ ChunksIndependent
    /\ ppc = "failed" => calls = <<>> /\ inflight = NoCall

\* C6 case: a page has returned on which a call raised, a later call of the
\* same bucket returned a word, and a call before the raising one did too.
C6_Witness ==
    /\ ppc = "done"
    /\ \E i, j, k \in 1..Len(calls) :
          /\ i < j /\ j < k
          /\ calls[i].outcome = "returned" /\ calls[i].texts[1] # ""
          /\ calls[j].outcome = "raised"
          /\ calls[k].outcome = "returned" /\ calls[k].texts[1] # ""
          /\ calls[j].prompt = calls[k].prompt

\* C9: every element classification produces carries a reading_order equal
\* to the index of its region in the parsed layout sequence, also after
\* regions skipped for an empty crop or dropped by an exception.
C9_ReadingOrderIsLayoutIndex ==
    \A c \in Range(classified) :
        c.outcome = "kept" => c.reading_order = c.region - 1

\* The number of layout regions labelled fig that classification kept.
KeptFigures == {c \in Range(classified) : c.outcome = "kept" /\ c.label = "fig"}

\* C10: each layout region labelled fig yields a figure element with empty
\* text and confidence 1.0, and its crop is in no recognition call, in every
\* engine variant.
C10_FiguresBypassRecognition ==
    /\ \A c \in KeptFigures :
          \E e \in Range(element_groups.figure) :
              /\ e.type = "figure"
              /\ e.reading_order = c.reading_order
              /\ e.text = ""
              /\ e.confidence = Frac(1, 1)
    /\ \A c \in Range(calls) : \A j \in 1..Len(c.batch) :
          layout_data[c.batch[j].crop] # "fig"

TextsOf(q) == {e \in Range(q) : e.type = "text"}
OthersOf(q) == {e \in Range(q) : e.type # "text"}

\* Text elements a and b of the input, a before b in reading order, were
\* folded into one output element: groups are runs of the texts in reading
\* order and a merged element carries the least reading_order of its group,
\* so no text element of the output has a reading_order after a's and up to
\* b's.
FoldedTogether(a, b, out) ==
    /\ a.reading_order < b.reading_order
    /\ ~\E e \in TextsOf(out) :
          a.reading_order < e.reading_order /\ e.reading_order <= b.reading_order

\* C13: in both mergers two text elements are never folded into the same
\* merged element when a table or figure has a reading_order strictly
\* between theirs.
C13_NonTextSeparates ==
    passes >= 1 =>
        \A a, b \in TextsOf(mPrev) : \A c \in OthersOf(mPrev) :
            (a.reading_order < c.reading_order /\ c.reading_order < b.reading_order)
                => ~FoldedTogether(a, b, mList)

\* Text elements a and b of list q with no element of q between them in
\* reading order.
Consecutive(a, b, q) ==
    /\ a.reading_order < b.reading_order
    /\ ~\E e \in Range(q) :
          a.reading_order < e.reading_order /\ e.reading_order < b.reading_order

\* Top edge of the later box minus bottom edge of the earlier box.
Gap(a, b) == b.bbox[2] - a.bbox[4]

Abs(x) == IF x < 0 THEN -x ELSE x

\* What the pass made of the scenario pair under threshold th: one element
\* spanning [0,0,100,45], or the two elements.
ScenarioAt(th, folded) ==
    (passes = 1 /\ mPrev = ScenarioPair /\ mDistance = th) =>
        IF folded
        THEN Len(mList) = 1 /\ mList[1].bbox = <<0, 0, 100, 45>>
        ELSE Len(mList) = 2

\* C14 as stated: two text elements consecutive in reading order are folded
\* exactly when top of later minus bottom of earlier is at most the
\* threshold, so that a later box starting above the earlier bottom edge is
\* always folded; the scenario pair merges at threshold 20 and stays
\* separate at threshold 10.
C14_SignedGapRule ==
    /\ passes >= 1 =>
          \A a, b \in TextsOf(mPrev) :
              Consecutive(a, b, mPrev) =>
                  (FoldedTogether(a, b, mList) <=> Gap(a, b) <= mDistance)
    /\ ScenarioAt(20, TRUE)
    /\ ScenarioAt(10, FALSE)

\* C14 (amended): two text elements consecutive in reading order are folded
\* exactly when the absolute distance between the bottom edge of the earlier
\* box and the top edge of the later box is at most the threshold; the
\* scenario pair (distance 5) merges into [0,0,100,45] at threshold 20 and
\* at threshold 10.
C14_AbsoluteGapRule ==
    /\ passes >= 1 =>
          \A a, b \in TextsOf(mPrev) :
              Consecutive(a, b, mPrev) =>
                  (FoldedTogether(a, b, mList) <=> Abs(Gap(a, b)) <= mDistance)
    /\ ScenarioAt(20, TRUE)
    /\ ScenarioAt(10, TRUE)

\* C14 case: the scenario pair went through a pass with threshold 10 and
\* came out as one element.
C14_Witness ==
    /\ passes = 1
    /\ mPrev = ScenarioPair
    /\ mDistance = 10
    /\ Len(mList) = 1

\* The input elements folded into output element e: those of its type whose
\* words stand in its text (every input element has a word of its own).
FoldedInto(e, input) ==
    {a \in Range(input) : a.type = e.type /\ Contains(e.text, a.text)}

DistinctOrders(q) ==
    \A i, j \in DOMAIN q : i # j => q[i].reading_order # q[j].reading_order

\* C15: every element of a merger's output carries the least reading_order
\* of the input elements folded into it (its own when it was not folded), so
\* the output's reading orders are among the input's, and are pairwise
\* distinct when the input's are.
C15_MergeKeepsLeastOrder ==
    passes >= 1 =>
        /\ \A e \in Range(mList) :
              /\ FoldedInto(e, mPrev) # {}
              /\ e.reading_order =
                    SetMin({a.reading_order : a \in FoldedInto(e, mPrev)})
        /\ DistinctOrders(mPrev) => DistinctOrders(mList)

\* C15 case: a pass folded two or more text elements of a list that was not
\* in reading order, and left another element of the list as it was.
C15_Witness ==
    /\ passes = 1
    /\ Len(mPrev) = 3
    /\ Len(mList) = 2
    /\ mPrev[1].reading_order > mPrev[2].reading_order
    /\ \E e \in Range(mList) : Cardinality(FoldedInto(e, mPrev)) = 2

\* The element type a layout label stands for.
TypeOfLabel(label) ==
    IF label = "fig" THEN "figure" ELSE IF label = "tab" THEN "table" ELSE "text"

KeptRegions == {c \in Range(classified) : c.outcome = "kept"}

\* C11: the type of every element of the returned list is the one its layout
\* label stands for (fig: figure, tab: table, any other: text), whether the
\* recognition call for its chunk returned or raised.
C11_TypeFromLabel ==
    ppc = "done" =>
        \A e \in Range(final) : \A c \in KeptRegions :
            c.reading_order = e.reading_order => e.type = TypeOfLabel(c.label)

\* The recognition calls made so far with one prompt, in order.
CallsWith(prompt) == SelectSeq(calls, LAMBDA c : c.prompt = prompt)

\* Call k (from 0) of a bucket carries elements k*b .. min((k+1)*b, n) - 1
\* of the bucket, in their order.
ChunkOfBucket(cs, bucket, b) ==
    \A k \in 0..(Len(cs) - 1) :
        /\ Len(cs[k + 1].batch) = Min((k + 1) * b, Len(bucket)) - k * b
        /\ \A j \in 1..Len(cs[k + 1].batch) :
              cs[k + 1].batch[j] = bucket[k * b + j]

CeilDiv(n, b) == (n + b - 1) \div b

\* C12: for a bucket of n pending elements and batch size b the dispatcher
\* issues exactly ceil(n/b) recognition calls, and call k carries elements
\* k*b up to min((k+1)*b, n) - 1 in their original order.
C12_ChunksPartitionBucket ==
    LET b == request.max_batch_size IN
    /\ ChunkOfBucket(CallsWith(TextPrompt), element_groups.text, b)
    /\ ChunkOfBucket(CallsWith(TablePrompt), element_groups.table, b)
    /\ ppc \in {"combine", "done"} =>
          /\ Len(CallsWith(TextPrompt)) = CeilDiv(Len(element_groups.text), b)
          /\ Len(CallsWith(TablePrompt)) = CeilDiv(Len(element_groups.table), b)

\* C12 case: a bucket of three elements was dispatched with batch size 2, in
\* two calls, the second with one element.
C12_Witness ==
    /\ ppc = "done"
    /\ request.max_batch_size = 2
    /\ Len(element_groups.text) = 3
    /\ Len(CallsWith(TextPrompt)) = 2
    /\ Len(CallsWith(TextPrompt)[2].batch) = 1


\* The lines of text t, each with the place where it starts.
LinesOf(t) ==
    LET breaks == {0, Len(t) + 1} \cup {i \in 1..Len(t) : SubSeq(t, i, i) = "\n"}
    IN  {[at |-> b + 1,
          line |-> SubSeq(t, b + 1, SetMin({c \in breaks : c > b}) - 1)] :
            b \in breaks \ {Len(t) + 1}}

\* The places where a line of the text is the given one, and the first of
\* them (0: none).
PlacesOf(lines, line) == {l.at : l \in {k \in lines : k.line = line}}

FirstPlace(lines, line) ==
    LET places == PlacesOf(lines, line)
    IN  IF places = {} THEN 0 ELSE SetMin(places)

HasMarkdown == aFormat \in {"markdown", "structured"}
HasHtml == aFormat \in {"html", "structured"}
HasJson == aFormat \in {"json", "structured"}

\* Where the elements of the list passed stand in each output: the index in
\* the JSON elements, the place of the line that opens the element's block
\* (it holds the element's box) in the HTML text, the place of the line with
\* the element's words in the Markdown text.
JsonPlaces ==
    [i \in DOMAIN aGiven |->
        CHOOSE k \in DOMAIN aResult.json_data.elements :
            aResult.json_data.elements[k].element_id = aGiven[i].element_id]
HtmlPlaces ==
    LET lines == LinesOf(aResult.html_content)
    IN  [i \in DOMAIN aGiven |->
            FirstPlace(lines,
                ((("        <div class=\"element " \o aGiven[i].type)
                    \o "-element\" data-bbox=\"") \o BboxRepr(aGiven[i].bbox)) \o "\">")]
MarkdownPlaces ==
    LET lines == LinesOf(aResult.markdown_content)
    IN  [i \in DOMAIN aGiven |-> FirstPlace(lines, PyStrip(aGiven[i].text))]

\* The elements whose own words stand in the Markdown text, and the figures,
\* which all stand there as the same placeholder.
Worded(i) == aGiven[i].type \in {"text", "table"} /\ PyStrip(aGiven[i].text) # ""
IsFigure(i) == aGiven[i].type = "figure"

OrderOf(i) == aGiven[i].reading_order

\* The places of list q are in ascending reading_order over the elements D.
Ascending(places, D) ==
    \A i, j \in D : OrderOf(i) < OrderOf(j) => places[i] < places[j]

\* Two outputs list the elements D in the same relative order.
SameOrder(p, q, D) ==
    \A i, j \in D : (p[i] < p[j]) <=> (q[i] < q[j])

\* Between the words of the Markdown text stand as many figure placeholders
\* as there are figures before each word in reading order (a figure with
\* the reading_order of the word may stand on either side).
FiguresInPlace(md, D) ==
    LET figs == PlacesOf(LinesOf(aResult.markdown_content), "### Figure")
    IN  \A i \in D :
            LET before == Cardinality({q \in figs : q < md[i]})
            IN  /\ before >= Cardinality({f \in DOMAIN aGiven :
                                            IsFigure(f) /\ OrderOf(f) < OrderOf(i)})
                /\ before <= Cardinality({f \in DOMAIN aGiven :
                                            IsFigure(f) /\ OrderOf(f) <= OrderOf(i)})

\* C16: for every element list, in whatever order it is passed, each of the
\* Markdown, JSON and HTML outputs lists the elements it contains in
\* ascending reading_order, and the three list them in the same relative
\* order.
C16_OutputsInReadingOrder ==
    aRuns >= 1 =>
        LET all == DOMAIN aGiven
            worded == {i \in all : Worded(i)}
            js == IF HasJson THEN JsonPlaces ELSE <<>>
            html == IF HasHtml THEN HtmlPlaces ELSE <<>>
            md == IF HasMarkdown THEN MarkdownPlaces ELSE <<>>
        IN  /\ HasJson => Ascending(js, all)
            /\ HasHtml => (\A i \in all : html[i] > 0) /\ Ascending(html, all)
            /\ HasMarkdown =>
                  /\ \A i \in worded : md[i] > 0
                  /\ Ascending(md, worded)
                  /\ FiguresInPlace(md, worded)
            /\ aFormat = "structured" =>
                  SameOrder(js, html, all) /\ SameOrder(js, md, worded)

\* C16 case: all three outputs were made of a list of three elements passed
\* out of reading order, with two worded elements and a figure among them.
C16_Witness ==
    /\ aRuns >= 1
    /\ aFormat = "structured"
    /\ Len(aGiven) = 3
    /\ OrderOf(1) > OrderOf(2)
    /\ \E i, j, f \in DOMAIN aGiven :
          /\ i # j /\ Worded(i) /\ Worded(j) /\ IsFigure(f)
          /\ OrderOf(f) > OrderOf(i) /\ OrderOf(f) < OrderOf(j)

ResultsFor(p) ==
    {i \in DOMAIN Dispatched :
        /\ Dispatched[i].reading_order = p.reading_order
        /\ Dispatched[i].bbox = p.bbox}

\* C19: whatever happens inside each chunk (the call returns, raises, or an
\* exception occurs while its texts are attached), the dispatcher's result
\* holds exactly one element per pending element, with that element's bbox
\* and reading_order.
C19_OneResultPerPending ==
    \A c \in Range(calls) : \A j \in DOMAIN c.batch :
        Cardinality(ResultsFor(c.batch[j])) = 1

\* The bucket a recognition call belongs to.
BucketOf(prompt) ==
    IF prompt = TextPrompt THEN element_groups.text ELSE element_groups.table

\* C20: within one page invocation the recognition call in flight is the
\* only one: every chunk of its bucket before it has returned or failed
\* (it stands in the history of finished calls, in order), every text chunk
\* has finished before a table chunk is in flight, and no table chunk has
\* been issued while a text chunk is in flight.
C20_OneCallAtATime ==
    /\ inflight # NoCall =>
          LET finished == BatchesOf(calls, inflight.prompt)
          IN  /\ finished \o inflight.batch =
                    SubSeq(BucketOf(inflight.prompt), 1,
                           Len(finished) + Len(inflight.batch))
              /\ inflight.prompt = TablePrompt =>
                    BatchesOf(calls, TextPrompt) = element_groups.text
              /\ inflight.prompt = TextPrompt =>
                    BatchesOf(calls, TablePrompt) = <<>>
    /\ \A i, j \in DOMAIN calls :
          (i < j /\ calls[i].prompt = TablePrompt) => calls[j].prompt = TablePrompt

\* C20 case: a table chunk is in flight after two text chunks, the first of
\* which raised.
C20_Witness ==
    /\ inflight # NoCall
    /\ inflight.prompt = TablePrompt
    /\ Len(calls) = 2
    /\ calls[1].outcome = "raised"
    /\ calls[2].outcome = "returned"

Inferring == {t \in Tasks : tpc[t] = "inferring"}

\* C4: in each engine variant, however many page requests run concurrently,
\* at most max_concurrent_tasks page invocations are executing an inference
\* call at any moment.
C4_InferenceBounded ==
    Cardinality(Inferring) <= MaxConcurrentTasks

\* C18: xDANVisionEngine.process_document returns a result in each of the
\* processing modes sync, async and stream: no invocation ends in an error
\* (inference failures are caught inside the engine).
C18_EveryModeReturns ==
    semVariant = "xdan" => \A t \in Tasks : tpc[t] # "failed"

Loading == {c \in Callers : lpc[c] = "loading"}

\* C7: with concurrent chat calls that arrive while the model is not loaded,
\* at most one execution of _load_model_sync is in progress at any time, and
\* once a load has succeeded no further load is started.
C7_LoadOnce ==
    /\ Cardinality(Loading) <= 1
    /\ \A i, j \in DOMAIN load_log :
          (i < j /\ load_log[i] = "success") => load_log[j] # "start"

\* C7 case: a load has succeeded while another chat call, which saw the model
\* not loaded, is still on its way to the lock.
C7_Witness ==
    /\ model_loaded
    /\ \E c \in Callers : lpc[c] = "want_lock"

\* C8: parse_layout_string returns one entry per well-formed occurrence of a
\* bracketed 4-number tuple followed by a label, in the order of the text;
\* malformed spans contribute nothing, and a text without an occurrence
\* gives the empty list.
C8_ParseOccurrences ==
    parse_pc = "parsed" => parsed = Entries(fragments)

\* C8 case: a text was parsed in which a malformed span stands before a
\* well-formed occurrence and another occurrence before both.
C8_Witness ==
    /\ parse_pc = "parsed"
    /\ Len(fragments) = 3
    /\ fragments[1].entry # <<>>
    /\ fragments[2].entry = <<>>
    /\ fragments[3].entry # <<>>
    /\ Len(parsed) = 2

InsideImage(b, d) ==
    /\ 0 <= b[1] /\ b[1] <= d.original_w
    /\ 0 <= b[3] /\ b[3] <= d.original_w
    /\ 0 <= b[2] /\ b[2] <= d.original_h
    /\ 0 <= b[4] /\ b[4] <= d.original_h

\* C21: for every normalized box and every image size, the four coordinates
\* of the original-space box that process_coordinates returns lie inside the
\* original image: 0 <= x1, x2 <= original_w and 0 <= y1, y2 <= original_h.
C21_OriginalBoxInsideImage ==
    cpc = "mapped" => InsideImage(boxes.original, dims)

\* The group members that have a confidence; 0.0 is one.
WithConfidence(group) == {a \in group : a.confidence # NoConfidence}

RECURSIVE ConfidenceSum(_)
ConfidenceSum(group) ==
    IF group = {} THEN Frac(0, 1)
    ELSE LET a == CHOOSE x \in group : TRUE
         IN  FracAdd(a.confidence, ConfidenceSum(group \ {a}))

MeanConfidence(group) ==
    LET t == ConfidenceSum(group)
    IN  Frac(t.n, t.d * Cardinality(group))

\* C22: in both mergers an output element into which two or more text
\* elements were folded has as confidence the arithmetic mean of the
\* confidences of the folded elements that have one, a confidence of 0.0
\* included.
C22_MergedConfidenceIsMean ==
    passes = 1 =>
        \A e \in Range(mList) :
            LET group == FoldedInto(e, mPrev)
            IN  (Cardinality(group) >= 2 /\ WithConfidence(group) # {}) =>
                    e.confidence = MeanConfidence(WithConfidence(group))

\* The elements of a list whose text has no non-whitespace character.
Blank(e) == PyStrip(e.text) = ""

\* The list without its elements without a word, and the list without those
\* of them that are not figures.
WithoutBlank(elements) == SelectSeq(elements, LAMBDA e : ~Blank(e))
WithoutBlankButFigures(elements) ==
    SelectSeq(elements, LAMBDA e : ~(Blank(e) /\ e.type # "figure"))

\* The JSON output counts every element of the list passed and lists each.
JsonHoldsAll ==
    /\ aResult.json_data.document_info.total_elements = Len(aGiven)
    /\ Len(aResult.json_data.elements) = Len(aGiven)
    /\ \A i \in DOMAIN aGiven :
          \E k \in DOMAIN aResult.json_data.elements :
              /\ aResult.json_data.elements[k].element_id = aGiven[i].element_id
              /\ aResult.json_data.elements[k].text = aGiven[i].text

\* C23 as stated: every element whose text has no non-whitespace character,
\* of any type, contributes nothing to the Markdown output (the output is
\* that of the list without these elements), and is counted in
\* total_elements and listed in the elements of the JSON output.
C23_BlankOfAnyTypeSkipped ==
    aRuns >= 1 =>
        /\ HasMarkdown =>
              aResult.markdown_content =
                  generate_markdown(WithoutBlank(aGiven))
        /\ HasJson => JsonHoldsAll

\* C23: every element other than a figure whose text has no non-whitespace
\* character contributes nothing to the Markdown output (a figure always
\* contributes its placeholder), and every element is counted in
\* total_elements and listed in the elements of the JSON output.
C23_BlankButFigureSkipped ==
    aRuns >= 1 =>
        /\ HasMarkdown =>
              aResult.markdown_content =
                  generate_markdown(WithoutBlankButFigures(aGiven))
        /\ HasJson => JsonHoldsAll

\* C23 case: the outputs of a list that holds an element without a word
\* that is not a figure, a figure without text, and a text with a word.
C23_Witness ==
    /\ aRuns >= 1
    /\ aFormat = "structured"
    /\ Len(aGiven) = 3
    /\ \E i, j, k \in DOMAIN aGiven :
          /\ Blank(aGiven[i]) /\ aGiven[i].type \in {"table", "formula"}
          /\ IsFigure(j) /\ Blank(aGiven[j])
          /\ Worded(k)

\* unload_model has not been called so far.
NeverUnloaded == eng_unloads = 0 /\ upc = "idle"

\* The chat calls whose _load_model_sync is with the executor.
EngLoading == {c \in EngCallers : epc[c] \in {"loading", "preparing"}}

\* C26: in engines.AsyncDolphinEngine, however many chat calls arrive while
\* the model is not loaded, _load_model_sync is executed at most once: at
\* most one run is in progress at any time and, the model not having been
\* unloaded, none is in progress once the model is loaded.
C26_EngineLoadsOnce ==
    /\ Cardinality(EngLoading) <= 1
    /\ (NeverUnloaded /\ eng_model_loaded) => EngLoading = {}

\* C24: a load that fails makes its call raise, leaves the loaded flag
\* unset and the load lock free, and no inference is run on a model that
\* failed to load. For the engines with a load lock: an inference runs only
\* with the flag set, the lock is held only by a call that is loading, and a
\* load that failed has set no flag. For engines.AsyncDolphinEngine (no
\* unload_model involved): an inference runs only with the flag set and on a
\* model whose load did not fail.
C24_NoInferenceOnFailedLoad ==
    /\ \A c \in Callers : lpc[c] = "infer" => model_loaded
    /\ load_lock # 0 => lpc[load_lock] = "loading"
    /\ model_loaded => Count(load_log, "success") >= 1
    /\ NeverUnloaded =>
          \A c \in EngCallers :
              epc[c] = "infer" => (eng_model_loaded /\ ~eng_model.failed)

\* C27: for every interleaving of chat and unload_model calls, _chat_sync
\* never executes while the model, the processor or the tokenizer is unset.
C27_InferenceOnLoadedModel ==
    \A c \in EngCallers :
        epc[c] = "infer" => (eng_model # NoModel /\ eng_tokenizer)

EngEnded(c) == epc[c] \in {"done", "raised"}
EngUnderWay(c) == epc[c] \notin {"idle", "done", "raised"}

\* C28: in engines.AsyncDolphinEngine every chat call that has begun
\* eventually returns or raises, also the first one with a single slot: the
\* load and the warm-up inference nested in it end before the call takes its
\* own slot.
C28_ChatCallsEnd ==
    \A c \in EngCallers : EngUnderWay(c) ~> EngEnded(c)

\* C28 case: the warm-up inference of a first chat call holds the only slot
\* taken, while the chat call around it has not asked for one yet.
C28_Witness ==
    \E c \in EngCallers :
        /\ edepth[c] = 1
        /\ epc[c] = "infer"
        /\ eng_slots = 0
        /\ \A o \in EngCallers \ {c} : epc[o] # "infer"

\* The invocations of process_document that hold a slot.
HoldingSlot == {t \in Tasks : tpc[t] \in {"ready", "inferring"}}

\* C25: an invocation of xDANVisionEngine.process_document gives its slot
\* back when it ends, by a result or by an exception: the free slots and the
\* invocations under way add up to max_concurrent_tasks; and every request
\* that waits for a slot is eventually admitted.
C25_SlotsReturnedAndAdmitted ==
    /\ [](semVariant = "xdan" =>
            permits + Cardinality(HoldingSlot) = MaxConcurrentTasks)
    /\ \A t \in Tasks :
          (semVariant = "xdan" /\ tpc[t] = "idle") ~> (tpc[t] # "idle")

\* C25 case: an invocation has ended with an exception and every slot,
\* the one it gave back too, is held by another invocation.
C25_Witness ==
    /\ semVariant = "xdan"
    /\ permits = 0
    /\ Cardinality(HoldingSlot) = MaxConcurrentTasks
    /\ \E u \in Tasks : tpc[u] \in {"failed", "raised"}

Backwards(before, after) ==
    \/ before \in {"processing", "completed", "failed"} /\ after = "pending"
    \/ before \in {"completed", "failed"} /\ after # before

\* C29: a task's stored status never moves backwards, for every
\* interleaving of add_task and the workers: after processing, completed or
\* failed it is never pending again, and after completed or failed it never
\* changes.
C29_StatusNeverMovesBack ==
    [][\A t \in QueueTasks : ~Backwards(q_status[t], q_status'[t])]_vars

\* The worker that took task t has returned from _process_task.
Taken(t) == q_log[t] # <<>> \/ q_write_failed[t] \/ \E w \in Workers : wtask[w] = t
Released(t) == Taken(t) /\ \A w \in Workers : wtask[w] # t

\* The terminal status the worker owes a task: completed when the processor
\* returned, failed when it raised or none is set.
OwedStatus(t) == IF q_outcome[t] = "returned" THEN "completed" ELSE "failed"

\* C30: for every task a worker took, no update_task_status call having
\* raised: processing is the first status the worker writes, before the
\* processor is called; a terminal status is written only after the
\* processor call has ended or no processor was found; and when the worker
\* is done with the task it has written processing and then exactly one
\* terminal status, the one owed, so the stored status is not processing.
C30_WorkerWritesOneTerminalStatus ==
    \A t \in QueueTasks :
        ~q_write_failed[t] =>
            /\ q_outcome[t] # "none" => (q_log[t] # <<>> /\ q_log[t][1] = "processing")
            /\ Len(q_log[t]) >= 2 => q_outcome[t] \in {"returned", "raised", "no_processor"}
            /\ Released(t) =>
                  /\ q_log[t] = <<"processing", OwedStatus(t)>>
                  /\ q_status[t] # "processing"

\* C30 case: the workers are done with every task, one after a processor
\* that returned and one after a processor that raised or without one.
C30_Witness ==
    /\ \A t \in QueueTasks : Released(t) /\ ~q_write_failed[t]
    /\ \E t, u \in QueueTasks :
          /\ q_outcome[t] = "returned"
          /\ q_outcome[u] \in {"raised", "no_processor"}

=============================================================================
